---- MODULE Spec2Model ----
(***************************************************************************)
(* State-machine model of the AI news dashboard server.                    *)
(*                                                                         *)
(* Spec       the refresh orchestrator (src/server/index.ts): one          *)
(*            streaming run (POST /api/refresh-all-stream) and one         *)
(*            non-streaming run (POST /api/refresh-all) over the same      *)
(*            adapter behaviour, with the adapters' upserts.               *)
(* FairSpec   the streaming run alone, every enabled step eventually       *)
(*            taken (the event loop runs every ready continuation).        *)
(* StoreSpec  the article store and the handlers that write it: refresh    *)
(*            upserts, read / unread, summarize, fetch-engagement.         *)
(***************************************************************************)
EXTENDS Integers, Sequences, FiniteSets, TLC

\* ------------------------------------------------------------------ bounds

\* An adapter's refresh reports at most this many origins (feeds, channels,
\* subreddits); origin k of a successful refresh delivers k items.
MaxOrigins == 2
\* Ticks of the wall clock (Date.now()) a behaviour of the store may see.
MaxTicks == 2
\* Concurrent POST /api/summarize/:id requests.
MaxRequests == 2
\* Requests the source routes handle in one behaviour.
MaxSourceEdits == 2

\* ------------------------------------------------------------ optional values

\* A nullable column or field: None is SQL NULL / JS null, Some(v) a value.
None == <<>>
Some(v) == <<v>>
IsSome(o) == o # None
Get(o) == o[1]

VARIABLES
  articles,    \* the articles table: stored id -> row
  clock,       \* Date.now(), in ticks
  behaviour,   \* source name -> what its adapter does when invoked
  sPc,         \* streaming run: position in start(controller)
  sI,          \* streaming run: loop index i
  events,      \* streaming run: events enqueued on the controller, in order
  sCalls,      \* streaming run: requests handed to source.route.fetch, in order
  sInflight,   \* streaming run: indexes whose route.fetch has not settled
  aPc,         \* non-streaming run: position in the handler
  aI,          \* non-streaming run: index into sources
  results,     \* non-streaming run: the results record, source name -> JSON
  aCalls,      \* non-streaming run: requests handed to source.route.fetch
  aInflight,   \* non-streaming run: indexes whose route.fetch has not settled
  sumReq,      \* summarize requests: slot -> position and article id
  engReq,      \* fetch-engagement request: position, article id, last answer
  list,        \* client: the articles the last render handed to useAutoSummarize
  summarized,  \* client: ids whose article carries a summary in the list state
  elementRefs, \* client: elementRefs.current, ids with a registered element
  visibleIds,  \* client: visibleIds.current
  processingRef, \* client: processingRef.current
  abortRef,    \* client: abortRef.current
  timer,       \* client: the 500 ms timer of the list-change effect is pending
  drains,      \* client: the processQueue calls suspended at await summarize
  state,       \* client: the hook's AutoSummarizeState
  changes,     \* client: list changes made so far by the application
  requestedSince, \* client: ids the queue requested since the last list change
  keywords,    \* config: sources.json's hackernews.keywords
  sources,     \* the sources table: id -> row
  sourceSeq,   \* the sources table's AUTOINCREMENT sequence
  edits,       \* source routes handled so far
  run,         \* adapter refresh: position, origins read, results, calls made
  listing,     \* GET /api/articles: the last query and the rows it returned
  scoring,     \* a call of normalizeEngagement: its arguments and its result
  parsing,     \* a call of parseEngagementNumber: its argument and its result
  reader       \* client: refreshAllWithProgress reading the refresh stream

queueVars == <<list, summarized, elementRefs, visibleIds, processingRef, abortRef,
               timer, drains, state, changes, requestedSince>>

adapterVars == <<keywords, sources, sourceSeq, edits, run>>
callVars == <<listing, scoring, parsing, reader>>

vars == <<articles, clock, behaviour, sPc, sI, events, sCalls, sInflight,
          aPc, aI, results, aCalls, aInflight, sumReq, engReq, queueVars,
          adapterVars, callVars>>

streamVars == <<sPc, sI, events, sCalls, sInflight>>
syncVars == <<aPc, aI, results, aCalls, aInflight>>
handlerVars == <<sumReq, engReq>>

\* ------------------------------------------------------------ article store

\* Normalised scores an adapter or the lazy fetch attaches to an item (the
\* ends of normalizeEngagement's 0..100 range).
SampleScores == {0, 100}

\* INSERT OR REPLACE: the conflicting row is deleted and written anew, so the
\* columns the statement does not name fall back to their defaults.
insertArticleReplace(db, article) ==
  (article.id :> [source_type |-> article.source_type,
                  title |-> article.title,
                  published_at |-> article.published_at,
                  fetched_at |-> article.fetched_at,
                  is_read |-> 0,
                  summary |-> None,
                  engagement_score |-> article.engagement_score,
                  engagement_raw |-> article.engagement_raw,
                  engagement_type |-> article.engagement_type,
                  engagement_fetched_at |-> article.engagement_fetched_at])
  @@ db

\* UPDATE only: a draft whose id is not stored yet is dropped.
insertArticleUpdateOnly(db, article) ==
  IF article.id \in DOMAIN db
  THEN [db EXCEPT ![article.id] =
          [@ EXCEPT !.engagement_score = article.engagement_score,
                    !.engagement_raw = article.engagement_raw,
                    !.engagement_type = article.engagement_type,
                    !.engagement_fetched_at = article.engagement_fetched_at]]
  ELSE db

\* ON CONFLICT(id) DO UPDATE SET engagement_score = engagement_score +
\* excluded.engagement_score: the score accumulates over the upserts.
insertArticleAccumulate(db, article) ==
  IF article.id \in DOMAIN db
  THEN [db EXCEPT ![article.id] =
          [@ EXCEPT !.engagement_score =
                      IF IsSome(@) /\ IsSome(article.engagement_score)
                      THEN Some(Get(@) + Get(article.engagement_score))
                      ELSE article.engagement_score,
                    !.engagement_raw = article.engagement_raw,
                    !.engagement_type = article.engagement_type,
                    !.engagement_fetched_at = article.engagement_fetched_at]]
  ELSE db @@ (article.id :>
          [source_type |-> article.source_type,
           title |-> article.title,
           published_at |-> article.published_at,
           fetched_at |-> article.fetched_at,
           is_read |-> 0,
           summary |-> None,
           engagement_score |-> article.engagement_score,
           engagement_raw |-> article.engagement_raw,
           engagement_type |-> article.engagement_type,
           engagement_fetched_at |-> article.engagement_fetched_at])

\* INSERT ... ON CONFLICT(id) DO UPDATE SET engagement_* = excluded.engagement_*
\* A new id gets the draft's columns, is_read DEFAULT 0 and summary NULL; a
\* stored id keeps every column but the four engagement ones.
insertArticle(db, article) ==
  IF article.id \in DOMAIN db
  THEN [db EXCEPT ![article.id] =
          [@ EXCEPT !.engagement_score = article.engagement_score,
                    !.engagement_raw = article.engagement_raw,
                    !.engagement_type = article.engagement_type,
                    !.engagement_fetched_at = article.engagement_fetched_at]]
  ELSE db @@ (article.id :>
          [source_type |-> article.source_type,
           title |-> article.title,
           published_at |-> article.published_at,
           fetched_at |-> article.fetched_at,
           is_read |-> 0,
           summary |-> None,
           engagement_score |-> article.engagement_score,
           engagement_raw |-> article.engagement_raw,
           engagement_type |-> article.engagement_type,
           engagement_fetched_at |-> article.engagement_fetched_at])

\* A mark that writes a row of its own when the id is not stored.
markAsReadCreating(db, id) ==
  IF id \in DOMAIN db THEN [db EXCEPT ![id].is_read = 1]
  ELSE (id :> [id |-> id, is_read |-> 1]) @@ db

\* A mark that flips the flag instead of setting it.
markAsReadToggle(db, id) ==
  IF id \in DOMAIN db THEN [db EXCEPT ![id].is_read = 1 - @] ELSE db

\* UPDATE articles SET is_read = 1 WHERE id = ?   (no row: nothing changes)
markAsRead(db, id) ==
  IF id \in DOMAIN db THEN [db EXCEPT ![id].is_read = 1] ELSE db

\* UPDATE articles SET is_read = 0 WHERE id = ?
markAsUnread(db, id) ==
  IF id \in DOMAIN db THEN [db EXCEPT ![id].is_read = 0] ELSE db

\* UPDATE articles SET summary = ? WHERE id = ?
saveSummary(db, id, summary) ==
  IF id \in DOMAIN db THEN [db EXCEPT ![id].summary = Some(summary)] ELSE db

\* SELECT * FROM articles WHERE id = ?   (null when there is no row)
getArticleById(db, id) ==
  IF id \in DOMAIN db THEN Some(db[id]) ELSE None

\* UPDATE articles SET engagement_score, engagement_raw, engagement_type,
\* engagement_fetched_at = now WHERE id = ?
updateEngagement(db, id, score, raw, type, now) ==
  IF id \in DOMAIN db
  THEN [db EXCEPT ![id] = [@ EXCEPT !.engagement_score = Some(score),
                                    !.engagement_raw = Some(raw),
                                    !.engagement_type = Some(type),
                                    !.engagement_fetched_at = Some(now)]]
  ELSE db

\* ---------------------------------------------------------------- adapters

\* The source_type each adapter writes, and the prefix of the ids it builds.
SourceTypeOf(name) ==
  CASE name = "feeds" -> "rss"
    [] name = "podcasts" -> "podcast"
    [] name = "reddit" -> "reddit"
    [] name = "hackernews" -> "hackernews"
    [] name = "youtube" -> "youtube"

\* The id of an item: deterministic in the source kind and the item's natural
\* key (`reddit-${id}`, `hn-${id}`, `youtube-${videoId}`, hash of link and title).
ArticleId(type, key) == <<type, key>>

\* The engagement columns of a draft that carries none (rss and podcast drafts
\* leave the fields out; the YouTube mapping sets them to null).
NoEngagement ==
  [engagement_score |-> None, engagement_raw |-> None,
   engagement_type |-> None, engagement_fetched_at |-> None]

\* The engagement columns Reddit and Hacker News compute inline from the
\* item's score: normalised score, String(score), the metric's name, now.
InlineEngagement(score, type, now) ==
  [engagement_score |-> Some(score), engagement_raw |-> Some(score),
   engagement_type |-> Some(IF type = "reddit" THEN "upvotes" ELSE "points"),
   engagement_fetched_at |-> Some(now)]

\* The draft an adapter maps one remote item to. `score` is the item's
\* normalised score; `skip` is the refresh request's skip_engagement flag and
\* `views` the outcome of extractYouTubeViews (None: nothing extracted).
AdapterDraft(type, key, score, now, skip, views) ==
  LET eng ==
        IF type \in {"reddit", "hackernews"} THEN InlineEngagement(score, type, now)
        ELSE IF type = "youtube" /\ ~skip /\ IsSome(views)
        THEN [engagement_score |-> views, engagement_raw |-> views,
              engagement_type |-> Some("views"), engagement_fetched_at |-> Some(now)]
        ELSE NoEngagement
  IN [id |-> ArticleId(type, key), source_type |-> type, title |-> key,
      published_at |-> None, fetched_at |-> now] @@ eng

\* ------------------------------------------------- adapter refresh handlers

\* What the POST /refresh handler of a source does when the orchestrator
\* invokes it:
\*   "ok"     it answers {success: true, results: [{source, count}, ...]},
\*            one entry per origin (an origin that failed to fetch or parse
\*            counts 0), having upserted every item it mapped;
\*   "fail"   it answers {success: false, error} (Hacker News only: the top
\*            stories request was not OK, or something in the handler threw);
\*   "throw"  route.fetch or res.json() rejects (the handler threw outside its
\*            own try, e.g. getSourcesByType failed);
\*   "hang"   a remote origin never answers, so route.fetch never settles
\*            (no adapter passes fetch() a signal or a timeout).
OkOutcomes == { [kind |-> "ok", origins |-> n] : n \in 0..MaxOrigins }

Outcomes(name) ==
  OkOutcomes \cup {[kind |-> "throw"], [kind |-> "hang"]}
  \cup (IF name = "hackernews" THEN {[kind |-> "fail"]} ELSE {})

\* The counts of a successful refresh: origin k delivered k items.
OriginCounts(out) == [k \in 1..out.origins |-> k]

\* The JSON body of the adapter's answer.
AdapterJson(name, out) ==
  IF out.kind = "ok"
  THEN [success |-> TRUE,
        results |-> [k \in 1..out.origins |->
                       [source |-> <<name, k>>, count |-> OriginCounts(out)[k]]]]
  ELSE [success |-> FALSE, error |-> "Failed to fetch top stories"]

\* The normalised score of item j of an origin's payload.
ItemScore(j) == IF j = 1 THEN 0 ELSE 100

\* The drafts a successful refresh upserts: item j of origin k, for every
\* origin of the answer.
AdapterDrafts(name, out, now, skip) ==
  UNION { { AdapterDraft(SourceTypeOf(name), <<k, j>>, ItemScore(j), now, skip, None) :
              j \in 1..OriginCounts(out)[k] } : k \in 1..out.origins }

RECURSIVE insertAll(_, _)
\* for (const article of articles) insertArticle(article). The drafts of one
\* refresh have distinct ids, so the order of the loop does not show.
insertAll(db, drafts) ==
  IF drafts = {} THEN db
  ELSE LET d == CHOOSE x \in drafts : TRUE
       IN insertAll(insertArticle(db, d), drafts \ {d})

\* The store after the adapter's refresh: only a refresh that answers
\* success upserts.
AdapterEffect(db, name, out, now, skip) ==
  IF out.kind = "ok" THEN insertAll(db, AdapterDrafts(name, out, now, skip)) ELSE db

\* ----------------------------------------------------- refresh orchestrator

\* const sources = [...] of POST /api/refresh-all-stream
StreamSources ==
  << [name |-> "feeds", label |-> "RSS Feeds"],
     [name |-> "podcasts", label |-> "Podcasts"],
     [name |-> "reddit", label |-> "Reddit"],
     [name |-> "hackernews", label |-> "Hacker News"],
     [name |-> "youtube", label |-> "YouTube"] >>

\* const sources = [...] of POST /api/refresh-all
SyncSources ==
  << [name |-> "feeds"], [name |-> "podcasts"], [name |-> "reddit"],
     [name |-> "hackernews"], [name |-> "youtube"] >>

SourceNames == { StreamSources[k].name : k \in 1..Len(StreamSources) }

\* The request the streaming run hands to the adapter: YouTube is asked to
\* skip engagement, every other source is not.
StreamRefreshUrl(name) == [source |-> name, skip_engagement |-> (name = "youtube")]

\* The request the non-streaming run hands to the adapter.
SyncRefreshUrl(name) == [source |-> name, skip_engagement |-> (name = "youtube")]

\* A progress event that numbers the sources from 1 (index: i + 1).
ProgressEventOneBased(label, i, total) ==
  [type |-> "progress", source |-> label, status |-> "fetching",
   index |-> i + 1, total |-> total]

\* The events of the stream, as the JSON of each data: line.
ProgressEvent(label, i, total) ==
  [type |-> "progress", source |-> label, status |-> "fetching",
   index |-> i, total |-> total]

CompleteEvent(label, count, i, total) ==
  [type |-> "complete", source |-> label, count |-> count,
   index |-> i, total |-> total]

ErrorEvent(label, error, i, total) ==
  [type |-> "error", source |-> label, error |-> error,
   index |-> i, total |-> total]

EngagementEvent(status) == [type |-> "engagement", status |-> status]

DoneEvent == [type |-> "done"]

RECURSIVE SumCounts(_)
SumCounts(rs) ==
  IF rs = <<>> THEN 0 ELSE rs[1].count + SumCounts(Tail(rs))

\* result.results?.reduce((a, r) => a + r.count, 0) || 0
CompleteCount(result) ==
  IF "results" \in DOMAIN result THEN SumCounts(result.results) ELSE 0

\* The event the streaming run enqueues when route.fetch settles: the catch
\* block's error event when it rejected, a complete event for every answer.
StreamOutcomeEvent(source, out, i, total) ==
  IF out.kind = "throw"
  THEN ErrorEvent(source.label, "Error", i, total)
  ELSE CompleteEvent(source.label, CompleteCount(AdapterJson(source.name, out)), i, total)

\* The entry the non-streaming run stores when route.fetch settles.
SyncOutcome(source, out) ==
  IF out.kind = "throw" THEN [error |-> "Error"] ELSE AdapterJson(source.name, out)

\* The request for POST /api/refresh-all-stream arrives: start(controller).
StreamStart ==
  /\ sPc = "idle"
  /\ sPc' = "loop"
  /\ sI' = 0
  /\ UNCHANGED <<articles, clock, behaviour, queueVars, events, sCalls, sInflight>>
  /\ UNCHANGED <<syncVars, handlerVars, adapterVars, callVars>>

\* A loop that does not await route.fetch before going on to the next source
\* (a fan-out with the awaits collected after the loop).
StreamInvokeWithoutAwait ==
  /\ sPc \in {"loop", "await"}
  /\ Len(sCalls) < Len(StreamSources)
  /\ LET source == StreamSources[Len(sCalls) + 1] IN
       /\ events' = Append(events, ProgressEvent(source.label, Len(sCalls), Len(StreamSources)))
       /\ sCalls' = Append(sCalls, StreamRefreshUrl(source.name))
  /\ sInflight' = sInflight \cup {Len(sCalls)}
  /\ sPc' = "await"
  /\ UNCHANGED <<articles, clock, behaviour, queueVars, sI>>
  /\ UNCHANGED <<syncVars, handlerVars, adapterVars, callVars>>

\* Loop body up to the await: enqueue the progress event of sources[i] and
\* hand the refresh request to its route.
StreamInvoke ==
  /\ sPc = "loop"
  /\ sI < Len(StreamSources)
  /\ LET source == StreamSources[sI + 1] IN
       /\ events' = Append(events, ProgressEvent(source.label, sI, Len(StreamSources)))
       /\ sCalls' = Append(sCalls, StreamRefreshUrl(source.name))
  /\ sInflight' = sInflight \cup {sI}
  /\ sPc' = "await"
  /\ UNCHANGED <<articles, clock, behaviour, queueVars, sI>>
  /\ UNCHANGED <<syncVars, handlerVars, adapterVars, callVars>>

\* A loop body without the try/catch: a rejected route.fetch rejects start(),
\* which errors the stream; nothing more is enqueued.
StreamAdapterReturnUncaught ==
  /\ sPc = "await"
  /\ LET source == StreamSources[sI + 1]
         out == behaviour[source.name]
     IN /\ out.kind # "hang"
        /\ articles' = AdapterEffect(articles, source.name, out, clock,
                                     sCalls[Len(sCalls)].skip_engagement)
        /\ IF out.kind = "throw"
           THEN events' = events /\ sI' = sI /\ sPc' = "closed"
           ELSE /\ events' = Append(events, StreamOutcomeEvent(source, out, sI, Len(StreamSources)))
                /\ sI' = sI + 1
                /\ sPc' = "loop"
  /\ sInflight' = sInflight \ {sI}
  /\ UNCHANGED <<clock, behaviour, queueVars, sCalls>>
  /\ UNCHANGED <<syncVars, handlerVars, adapterVars, callVars>>

\* route.fetch settles (the adapter's handler has run): enqueue the complete
\* or the error event and go on with i + 1.
StreamAdapterReturn ==
  /\ sPc = "await"
  /\ LET source == StreamSources[sI + 1]
         out == behaviour[source.name]
     IN /\ out.kind # "hang"
        /\ articles' = AdapterEffect(articles, source.name, out, clock,
                                     sCalls[Len(sCalls)].skip_engagement)
        /\ events' = Append(events, StreamOutcomeEvent(source, out, sI, Len(StreamSources)))
  /\ sInflight' = sInflight \ {sI}
  /\ sI' = sI + 1
  /\ sPc' = "loop"
  /\ UNCHANGED <<clock, behaviour, queueVars, sCalls>>
  /\ UNCHANGED <<syncVars, handlerVars, adapterVars, callVars>>

\* After the loop: enqueue engagement calculating, then await the 500 ms timer.
StreamEngagementStart ==
  /\ sPc = "loop"
  /\ sI = Len(StreamSources)
  /\ events' = Append(events, EngagementEvent("calculating"))
  /\ sPc' = "sleep"
  /\ UNCHANGED <<articles, clock, behaviour, queueVars, sI, sCalls, sInflight>>
  /\ UNCHANGED <<syncVars, handlerVars, adapterVars, callVars>>

\* The timer fires: enqueue engagement complete and done, close the stream.
StreamFinish ==
  /\ sPc = "sleep"
  /\ events' = events \o <<EngagementEvent("complete"), DoneEvent>>
  /\ sPc' = "closed"
  /\ UNCHANGED <<articles, clock, behaviour, queueVars, sI, sCalls, sInflight>>
  /\ UNCHANGED <<syncVars, handlerVars, adapterVars, callVars>>

\* The request for POST /api/refresh-all arrives.
SyncStart ==
  /\ aPc = "idle"
  /\ aPc' = "loop"
  /\ aI' = 0
  /\ UNCHANGED <<articles, clock, behaviour, queueVars, results, aCalls, aInflight>>
  /\ UNCHANGED <<streamVars, handlerVars, adapterVars, callVars>>

\* Loop body up to the await: hand the refresh request to sources[i].route.
SyncInvoke ==
  /\ aPc = "loop"
  /\ aI < Len(SyncSources)
  /\ aCalls' = Append(aCalls, SyncRefreshUrl(SyncSources[aI + 1].name))
  /\ aInflight' = aInflight \cup {aI}
  /\ aPc' = "await"
  /\ UNCHANGED <<articles, clock, behaviour, queueVars, aI, results>>
  /\ UNCHANGED <<streamVars, handlerVars, adapterVars, callVars>>

\* route.fetch settles: results[source.name] is the answer's JSON, or
\* {error: String(error)} from the catch block.
SyncAdapterReturn ==
  /\ aPc = "await"
  /\ LET source == SyncSources[aI + 1]
         out == behaviour[source.name]
     IN /\ out.kind # "hang"
        /\ articles' = AdapterEffect(articles, source.name, out, clock,
                                     aCalls[Len(aCalls)].skip_engagement)
        /\ results' = (source.name :> SyncOutcome(source, out)) @@ results
  /\ aInflight' = aInflight \ {aI}
  /\ aI' = aI + 1
  /\ aPc' = "loop"
  /\ UNCHANGED <<clock, behaviour, queueVars, aCalls>>
  /\ UNCHANGED <<streamVars, handlerVars, adapterVars, callVars>>

\* After the loop: return c.json(results).
SyncRespond ==
  /\ aPc = "loop"
  /\ aI = Len(SyncSources)
  /\ aPc' = "responded"
  /\ UNCHANGED <<articles, clock, behaviour, queueVars, aI, results, aCalls, aInflight>>
  /\ UNCHANGED <<streamVars, handlerVars, adapterVars, callVars>>

\* ------------------------------------------------- source table and adapters

\* The source kinds whose refresh loops over a list of origins.
LoopKinds == {"rss", "podcast", "reddit", "youtube"}

\* The order in which migrateSourcesFromJson walks the kinds of sources.json.
MigrationOrder == <<"rss", "podcast", "reddit", "youtube">>

\* config/sources.json (not among the sources): MaxOrigins origins of every
\* kind, origin k named k with value k.
SourcesJson(kind) == [k \in 1..MaxOrigins |-> [name |-> k, value |-> k]]

\* initializeSources() on an empty table: one addSource per entry of
\* sources.json, enabled by default, ids in the order of insertion; the
\* Hacker News keywords follow as rows of type hackernews.
MigratedSources(kws) ==
  [id \in 1..(Len(MigrationOrder) * MaxOrigins + Len(kws)) |->
     IF id <= Len(MigrationOrder) * MaxOrigins
     THEN LET kind == MigrationOrder[((id - 1) \div MaxOrigins) + 1]
              entry == SourcesJson(kind)[((id - 1) % MaxOrigins) + 1]
          IN [type |-> kind, name |-> entry.name, value |-> entry.value, enabled |-> 1]
     ELSE LET kw == kws[id - Len(MigrationOrder) * MaxOrigins]
          IN [type |-> "hackernews", name |-> kw, value |-> kw, enabled |-> 1]]

\* INSERT INTO sources (...): the new row takes the next AUTOINCREMENT id and
\* is enabled unless the input says otherwise.
addSource(tbl, seq, source) ==
  ((seq + 1) :> [type |-> source.type, name |-> source.name, value |-> source.value,
                 enabled |-> IF "enabled" \in DOMAIN source THEN source.enabled ELSE 1])
  @@ tbl

\* updateSource(id, updates): name, value and enabled take the update's value
\* where it has one (??), else keep the row's; no row: nothing changes.
updateSource(tbl, id, updates) ==
  IF id \notin DOMAIN tbl THEN tbl
  ELSE [tbl EXCEPT ![id] =
          [type |-> @.type,
           name |-> IF "name" \in DOMAIN updates THEN updates.name ELSE @.name,
           value |-> IF "value" \in DOMAIN updates THEN updates.value ELSE @.value,
           enabled |-> IF "enabled" \in DOMAIN updates THEN updates.enabled ELSE @.enabled]]

\* DELETE FROM sources WHERE id = ?
deleteSource(tbl, id) == [i \in DOMAIN tbl \ {id} |-> tbl[i]]

\* toggleSource(id): enabled === 1 ? 0 : 1
toggleSource(tbl, id) ==
  IF id \notin DOMAIN tbl THEN tbl
  ELSE [tbl EXCEPT ![id].enabled = IF @ = 1 THEN 0 ELSE 1]

RECURSIVE OrderByName(_, _)
\* ORDER BY name: the rows `ids` of tbl by ascending name (rows of one name
\* in the order of their ids).
OrderByName(tbl, ids) ==
  IF ids = {} THEN <<>>
  ELSE LET first == CHOOSE i \in ids :
                      \A j \in ids : \/ tbl[i].name < tbl[j].name
                                     \/ (tbl[i].name = tbl[j].name /\ i <= j)
       IN <<tbl[first]>> \o OrderByName(tbl, ids \ {first})

\* SELECT * FROM sources WHERE type = ? AND enabled = 1 ORDER BY name
getSourcesByType(tbl, type) ==
  OrderByName(tbl, { i \in DOMAIN tbl : tbl[i].type = type /\ tbl[i].enabled = 1 })

\* The origins a refresh of `kind` loops over: the RSS and YouTube handlers
\* ask getSourcesByType, the podcast and Reddit handlers walk sources.json.
RefreshOrigins(tbl, kind) ==
  IF kind \in {"rss", "youtube"}
  THEN LET rows == getSourcesByType(tbl, kind)
       IN [k \in DOMAIN rows |-> [name |-> rows[k].name, value |-> rows[k].value]]
  ELSE SourcesJson(kind)

\* What the remote origin does to one fetchRSSFeed / fetchPodcastFeed /
\* fetchSubreddit / fetchYouTubeFeed call:
\*   "items"      it answers a payload that maps to one item;
\*   "status"     it answers with a status that is not OK;
\*   "reject"     fetch rejects (network error);
\*   "malformed"  the payload does not parse or map (the mapping throws);
\*   "constraint" the payload maps to two items and the second violates a
\*                NOT NULL constraint of the articles table.
\*   "unlinked"   the payload has three items, the second without a link,
\*                and the mapping gives it an id and url undefined;
\*   "unhashable" the same payload, and the mapping throws on the item's id.
OriginOutcomes ==
  {"items", "status", "reject", "malformed", "constraint", "unlinked", "unhashable"}

\* What the fetch function returns: it catches every error of the fetch and
\* of the mapping and returns [] for them and for a status that is not OK.
\* An item without link is mapped with url undefined when generateArticleId
\* (utils/hash, not among the sources) accepts an undefined url, and makes
\* the whole map throw when it does not.
FetchedItems(outcome) ==
  CASE outcome = "items" -> <<1>>
    [] outcome = "constraint" -> <<1, 2>>
    [] outcome = "unlinked" -> <<1, 2, 3>>
    [] OTHER -> <<>>

\* The items insertArticle stores before the loop over the origin's articles
\* ends or throws: url is NOT NULL, so the insert of the item without link
\* throws.
InsertedItems(outcome) ==
  IF outcome \in {"constraint", "unlinked"} THEN <<1>> ELSE FetchedItems(outcome)

\* The entry the handler pushes for the origin: the count of the articles,
\* or count 0 with the error when the loop over them threw.
ResultEntry(origin, outcome) ==
  IF outcome \in {"constraint", "unlinked"}
  THEN [source |-> origin.name, count |-> 0, error |-> "SQLiteError: constraint failed"]
  ELSE [source |-> origin.name, count |-> Len(FetchedItems(outcome))]

\* No adapter refresh is being handled.
AdapterIdle == [pc |-> "idle"]

\* After construction: the table migrated from sources.json, no edit made,
\* no adapter refresh running.
AdaptersIdle(kws) ==
  /\ keywords = kws
  /\ sources = MigratedSources(kws)
  /\ sourceSeq = Len(MigrationOrder) * MaxOrigins + Len(kws)
  /\ edits = 0
  /\ run = AdapterIdle

\* POST /api/sources with a valid body.
AddSource(source) ==
  /\ edits < MaxSourceEdits
  /\ sources' = addSource(sources, sourceSeq, source)
  /\ sourceSeq' = sourceSeq + 1
  /\ edits' = edits + 1
  /\ UNCHANGED <<keywords, run>>
  /\ UNCHANGED <<articles, clock, behaviour, queueVars, streamVars, syncVars, handlerVars, callVars>>

\* PUT /api/sources/:id   (404 and nothing written when there is no row)
UpdateSource(id, updates) ==
  /\ edits < MaxSourceEdits
  /\ sources' = updateSource(sources, id, updates)
  /\ edits' = edits + 1
  /\ UNCHANGED <<keywords, sourceSeq, run>>
  /\ UNCHANGED <<articles, clock, behaviour, queueVars, streamVars, syncVars, handlerVars, callVars>>

\* DELETE /api/sources/:id
DeleteSource(id) ==
  /\ edits < MaxSourceEdits
  /\ sources' = deleteSource(sources, id)
  /\ edits' = edits + 1
  /\ UNCHANGED <<keywords, sourceSeq, run>>
  /\ UNCHANGED <<articles, clock, behaviour, queueVars, streamVars, syncVars, handlerVars, callVars>>

\* PATCH /api/sources/:id/toggle
ToggleSource(id) ==
  /\ edits < MaxSourceEdits
  /\ sources' = toggleSource(sources, id)
  /\ edits' = edits + 1
  /\ UNCHANGED <<keywords, sourceSeq, run>>
  /\ UNCHANGED <<articles, clock, behaviour, queueVars, streamVars, syncVars, handlerVars, callVars>>

\* The run after origin number `done` of `r.origins` was handled: the loop
\* goes on, or the handler answers {success: true, results}.
AfterOrigin(r) ==
  IF r.i > Len(r.origins) THEN [r EXCEPT !.pc = "done"] ELSE r

\* POST /refresh of a looping adapter up to its first await: the origins are
\* read once, before the loop.
RefreshStart(kind) ==
  /\ run.pc \in {"idle", "done"}
  /\ run' = AfterOrigin([pc |-> "looping", kind |-> kind,
                         origins |-> RefreshOrigins(sources, kind),
                         i |-> 1, results |-> <<>>, fetched |-> <<>>, upserted |-> {}])
  /\ UNCHANGED <<keywords, sources, sourceSeq, edits>>
  /\ UNCHANGED <<articles, clock, behaviour, queueVars, streamVars, syncVars, handlerVars, callVars>>

\* The handler's step for one origin, with the try around it left out: an
\* origin whose fetch rejects ends the handler.
RefreshOriginUncaught(outcome) ==
  /\ run.pc = "looping"
  /\ LET origin == run.origins[run.i]
         ids == { ArticleId(run.kind, <<origin.value, InsertedItems(outcome)[j]>>) :
                    j \in DOMAIN InsertedItems(outcome) }
         drafts == { AdapterDraft(run.kind, <<origin.value, InsertedItems(outcome)[j]>>,
                                  ItemScore(j), clock, TRUE, None) :
                       j \in DOMAIN InsertedItems(outcome) }
         next == [run EXCEPT !.i = @ + 1,
                             !.results = Append(@, ResultEntry(origin, outcome)),
                             !.fetched = Append(@, [value |-> origin.value, outcome |-> outcome]),
                             !.upserted = @ \cup ids]
     IN /\ articles' = insertAll(articles, drafts)
        /\ run' = IF outcome = "reject"
                  THEN [run EXCEPT !.pc = "done",
                                   !.fetched = Append(@, [value |-> origin.value,
                                                          outcome |-> outcome])]
                  ELSE AfterOrigin(next)
  /\ UNCHANGED <<keywords, sources, sourceSeq, edits>>
  /\ UNCHANGED <<clock, behaviour, queueVars, streamVars, syncVars, handlerVars, callVars>>

\* The handler's step for the origin at run.i, once its fetch function has
\* returned: every article is inserted and {source, count} is pushed; when
\* an insert throws, the handler's catch pushes count 0 with the error.
\* Then the loop moves on.
RefreshOrigin(outcome) ==
  /\ run.pc = "looping"
  /\ LET origin == run.origins[run.i]
         ids == { ArticleId(run.kind, <<origin.value, InsertedItems(outcome)[j]>>) :
                    j \in DOMAIN InsertedItems(outcome) }
         drafts == { AdapterDraft(run.kind, <<origin.value, InsertedItems(outcome)[j]>>,
                                  ItemScore(j), clock, TRUE, None) :
                       j \in DOMAIN InsertedItems(outcome) }
         next == [run EXCEPT !.i = @ + 1,
                             !.results = Append(@, ResultEntry(origin, outcome)),
                             !.fetched = Append(@, [value |-> origin.value, outcome |-> outcome]),
                             !.upserted = @ \cup ids]
     IN /\ articles' = insertAll(articles, drafts)
        /\ run' = AfterOrigin(next)
  /\ UNCHANGED <<keywords, sources, sourceSeq, edits>>
  /\ UNCHANGED <<clock, behaviour, queueVars, streamVars, syncVars, handlerVars, callVars>>

\* ------------------------------------------------- client: hook after mount

\* useState<AutoSummarizeState>({isAutoSummarizing: false, currentArticleId:
\* null, progress: {current: 0, total: 0}})
IdleState ==
  [isAutoSummarizing |-> FALSE, currentArticleId |-> None,
   progress |-> [current |-> 0, total |-> 0]]

\* useAutoSummarize after its first render with an empty article list: the
\* refs hold their initial values, both effects have run once (the observer
\* exists, the debounce timer is pending). `summ` are the ids the server will
\* deliver with a summary.
QueueMounted(summ) ==
  /\ list = <<>>
  /\ summarized = summ
  /\ elementRefs = {} /\ visibleIds = {}
  /\ processingRef = FALSE /\ abortRef = FALSE
  /\ timer = TRUE
  /\ drains = <<>>
  /\ state = IdleState
  /\ changes = 0
  /\ requestedSince = {}

\* The state after construction: initializeDatabase() has run, no request is
\* being handled. The adapters' behaviour is any the remote origins allow.
Init ==
  /\ articles = <<>>
  /\ clock = 0
  /\ behaviour \in { b \in [SourceNames -> UNION { Outcomes(n) : n \in SourceNames }] :
                       \A n \in SourceNames : b[n] \in Outcomes(n) }
  /\ sPc = "idle" /\ sI = 0 /\ events = <<>> /\ sCalls = <<>> /\ sInflight = {}
  /\ aPc = "idle" /\ aI = 0 /\ results = <<>> /\ aCalls = <<>> /\ aInflight = {}
  /\ sumReq = [r \in 1..MaxRequests |-> [pc |-> "idle"]]
  /\ engReq = [pc |-> "idle", answer |-> None]
  /\ QueueMounted({})
  /\ AdaptersIdle(<<>>)
  /\ listing = None
  /\ scoring = None
  /\ parsing = None
  /\ reader = None

StreamNext ==
  \/ StreamStart
  \/ StreamInvoke
  \/ StreamAdapterReturn
  \/ StreamEngagementStart
  \/ StreamFinish

SyncNext ==
  \/ SyncStart
  \/ SyncInvoke
  \/ SyncAdapterReturn
  \/ SyncRespond

Next == StreamNext \/ SyncNext

Spec == Init /\ [][Next]_vars

\* The streaming run alone; the runtime runs every continuation that is ready.
FairSpec == Init /\ [][StreamNext]_vars /\ WF_vars(StreamNext)

\* ------------------------------------------------------------ store handlers

\* One tick of the wall clock, in milliseconds.
TickMs == 1800000

\* Date.now() - fetchedAt.getTime() < 3600000
OneHourMs == 3600000

\* The items the remote origins of the store's behaviours serve: a Reddit post
\* and a YouTube video, by source type and natural key.
StoreItems == { <<"reddit", <<1, 1>>>>, <<"youtube", <<1, 1>>>> }

ArticleIds == { ArticleId(it[1], it[2]) : it \in StoreItems }

\* The texts the summarization model may answer (data.response.trim() may
\* be empty).
SummaryTexts == {"", "summary A", "summary B"}

\* What fetchEngagementForArticle resolves to: null, or a result with a score.
LazyResults == {None, Some(100)}

\* What a refresh hands to the mapping of an item: the Reddit refresh the
\* post's score (it takes no skip flag and extracts no views), the YouTube
\* refresh its skip_engagement flag and, unless skipping, what
\* extractYouTubeViews found.
UpsertInputs ==
  { [type |-> it[1], key |-> it[2], score |-> sc, skip |-> FALSE, views |-> None] :
      it \in { x \in StoreItems : x[1] = "reddit" }, sc \in SampleScores }
  \cup
  { [type |-> it[1], key |-> it[2], score |-> 0, skip |-> (v = None), views |-> v] :
      it \in { x \in StoreItems : x[1] = "youtube" }, v \in LazyResults }
  \cup
  { [type |-> it[1], key |-> it[2], score |-> 0, skip |-> FALSE, views |-> None] :
      it \in { x \in StoreItems : x[1] = "youtube" } }

\* One insertArticle(article) of an adapter's refresh loop: the draft of a
\* remote item, fetched now. A Reddit draft carries its inline engagement; a
\* YouTube draft carries views only when the refresh was not asked to skip
\* engagement and extractYouTubeViews found some.
RefreshUpsert(type, key, score, skip, views) ==
  /\ UNCHANGED <<clock, behaviour, queueVars, streamVars, syncVars, handlerVars, adapterVars, callVars>>
  /\ articles' = insertArticle(articles, AdapterDraft(type, key, score, clock, skip, views))

\* POST /api/articles/:id/read
MarkRead(id) ==
  /\ articles' = markAsRead(articles, id)
  /\ UNCHANGED <<clock, behaviour, queueVars, streamVars, syncVars, handlerVars, adapterVars, callVars>>

\* POST /api/articles/:id/unread
MarkUnread(id) ==
  /\ articles' = markAsUnread(articles, id)
  /\ UNCHANGED <<clock, behaviour, queueVars, streamVars, syncVars, handlerVars, adapterVars, callVars>>

\* if (article.summary): null and the empty string are falsy.
HasSummary(article) == IsSome(article.summary) /\ Get(article.summary) # ""

\* POST /api/summarize/:id up to the await: 404 when there is no row, the
\* stored summary (cached: true) when there is one, else the gateway is called.
SummarizeStart(r, id) ==
  /\ sumReq[r].pc = "idle"
  /\ LET article == getArticleById(articles, id) IN
       IF article = None \/ HasSummary(Get(article))
       THEN sumReq' = sumReq
       ELSE sumReq' = [sumReq EXCEPT ![r] = [pc |-> "awaiting", id |-> id]]
  /\ UNCHANGED <<articles, clock, behaviour, queueVars, streamVars, syncVars, engReq, adapterVars, callVars>>

\* summarizeText resolves: saveSummary(id, summary), answer cached: false.
SummarizeFinish(r, text) ==
  /\ sumReq[r].pc = "awaiting"
  /\ articles' = saveSummary(articles, sumReq[r].id, text)
  /\ sumReq' = [sumReq EXCEPT ![r] = [pc |-> "idle"]]
  /\ UNCHANGED <<clock, behaviour, queueVars, streamVars, syncVars, engReq, adapterVars, callVars>>

\* A failure handler that stores the error message as the summary.
SummarizeFailSavingError(r) ==
  /\ sumReq[r].pc = "awaiting"
  /\ articles' = saveSummary(articles, sumReq[r].id, "Error: Failed to generate summary")
  /\ sumReq' = [sumReq EXCEPT ![r] = [pc |-> "idle"]]
  /\ UNCHANGED <<clock, behaviour, queueVars, streamVars, syncVars, engReq, adapterVars, callVars>>

\* summarizeText rejects (gateway unreachable, timeout): answer 500.
SummarizeFail(r) ==
  /\ sumReq[r].pc = "awaiting"
  /\ sumReq' = [sumReq EXCEPT ![r] = [pc |-> "idle"]]
  /\ UNCHANGED <<articles, clock, behaviour, queueVars, streamVars, syncVars, engReq, adapterVars, callVars>>

\* The cache test with a window of half an hour.
EngagementIsFreshHalfHour(article, now) ==
  /\ IsSome(article.engagement_fetched_at)
  /\ (now - Get(article.engagement_fetched_at)) * TickMs * 2 < OneHourMs

\* The cache test of fetch-engagement: fetched less than one hour ago.
EngagementIsFresh(article, now) ==
  /\ IsSome(article.engagement_fetched_at)
  /\ (now - Get(article.engagement_fetched_at)) * TickMs < OneHourMs

\* c.json({ engagement_score, engagement_raw, engagement_type, cached: true })
CachedAnswer(article) ==
  [status |-> 200, cached |-> TRUE,
   engagement_score |-> article.engagement_score,
   engagement_raw |-> article.engagement_raw,
   engagement_type |-> article.engagement_type]

\* c.json({ engagement_score, ..., cached: false }), with a null score when
\* nothing was extracted.
FetchedAnswer(result) ==
  [status |-> 200, cached |-> FALSE, engagement_score |-> result]

\* POST /api/articles/:id/fetch-engagement up to the await: 404 when there is
\* no row, the stored engagement (cached: true) when it is fresh, else the
\* page is fetched.
FetchEngagementStart(id) ==
  /\ engReq.pc = "idle"
  /\ LET article == getArticleById(articles, id) IN
       IF article = None
       THEN engReq' = [pc |-> "idle", answer |-> Some([status |-> 404])]
       ELSE IF EngagementIsFresh(Get(article), clock)
       THEN engReq' = [pc |-> "idle", answer |-> Some(CachedAnswer(Get(article)))]
       ELSE engReq' = [pc |-> "awaiting", id |-> id, answer |-> None]
  /\ UNCHANGED <<articles, clock, behaviour, queueVars, streamVars, syncVars, sumReq, adapterVars, callVars>>

\* fetchEngagementForArticle resolves: a result is stored with
\* updateEngagement, null stores nothing.
FetchEngagementFinish(result) ==
  /\ engReq.pc = "awaiting"
  /\ articles' = IF IsSome(result)
                 THEN updateEngagement(articles, engReq.id, Get(result), Get(result),
                                       "views", clock)
                 ELSE articles
  /\ engReq' = [pc |-> "idle", answer |-> Some(FetchedAnswer(result))]
  /\ UNCHANGED <<clock, behaviour, queueVars, streamVars, syncVars, sumReq, adapterVars, callVars>>

\* Time passes.
Tick ==
  /\ clock < MaxTicks
  /\ clock' = clock + 1
  /\ UNCHANGED <<articles, behaviour, queueVars, streamVars, syncVars, handlerVars, adapterVars, callVars>>

\* The server after construction, whatever the store holds; no refresh-all
\* run is made (the adapters' refreshes arrive one upsert at a time).
ServerConstructed(kws) ==
  /\ clock = 0
  /\ behaviour = [n \in SourceNames |-> [kind |-> "hang"]]
  /\ sPc = "idle" /\ sI = 0 /\ events = <<>> /\ sCalls = <<>> /\ sInflight = {}
  /\ aPc = "idle" /\ aI = 0 /\ results = <<>> /\ aCalls = <<>> /\ aInflight = {}
  /\ sumReq = [r \in 1..MaxRequests |-> [pc |-> "idle"]]
  /\ engReq = [pc |-> "idle", answer |-> None]
  /\ QueueMounted({})
  /\ AdaptersIdle(kws)
  /\ listing = None

\* The store after construction is empty.
StoreConstructed(kws) ==
  articles = <<>> /\ scoring = None /\ parsing = None /\ reader = None
  /\ ServerConstructed(kws)

\* The store of a deployment whose sources.json configures no keyword.
StoreInit == StoreConstructed(<<>>)

StoreNext ==
  \/ \E inp \in UpsertInputs :
       RefreshUpsert(inp.type, inp.key, inp.score, inp.skip, inp.views)
  \/ \E id \in ArticleIds : MarkRead(id)
  \/ \E id \in ArticleIds : MarkUnread(id)
  \/ \E r \in 1..MaxRequests, id \in ArticleIds : SummarizeStart(r, id)
  \/ \E r \in 1..MaxRequests, text \in SummaryTexts : SummarizeFinish(r, text)
  \/ \E r \in 1..MaxRequests : SummarizeFail(r)
  \/ \E id \in ArticleIds : FetchEngagementStart(id)
  \/ \E result \in LazyResults : FetchEngagementFinish(result)
  \/ Tick

StoreSpec == StoreInit /\ [][StoreNext]_vars

\* ----------------------------------------------- client: auto-summarize queue

\* The articles the server can deliver, by id.
MaxItems == 3

\* The list changes the application makes (loads, re-sorts, filter toggles).
MaxListChanges == 2

Ids == 1..MaxItems

\* a.content: every third article comes without content.
HasContent(id) == id % 3 # 0

\* The article lists a render can hand to the hook: no id twice.
Lists ==
  { l \in UNION { [1..n -> Ids] : n \in 0..MaxItems } :
      \A i, j \in DOMAIN l : i # j => l[i] # l[j] }

Range(l) == { l[i] : i \in DOMAIN l }

\* A filter that forgets the content test.
unsummarizedVisibleAnyContent(articleList, visible, summ) ==
  SelectSeq(articleList, LAMBDA id : id \in visible /\ id \notin summ)

\* articles.filter(a => visibleIds.current.has(a.id) && !a.summary && a.content)
unsummarizedVisible(articleList, visible, summ) ==
  SelectSeq(articleList, LAMBDA id : id \in visible /\ id \notin summ /\ HasContent(id))

\* What processQueue reads and writes beside the list and the visible set.
Refs ==
  [processingRef |-> processingRef, drains |-> drains, state |-> state,
   requestedSince |-> requestedSince]

\* processQueue() up to its first await: nothing when a drain is marked in
\* flight or the hook is aborted; the idle state when there is no candidate;
\* else the flag is set, the progress is published and the first candidate is
\* requested (abortRef was just tested, and the candidates were filtered by
\* !a.summary, so the loop's two tests pass).
processQueue(q, articleList, visible, summ, abort) ==
  IF q.processingRef \/ abort THEN q
  ELSE LET cands == unsummarizedVisible(articleList, visible, summ) IN
    IF cands = <<>> THEN [q EXCEPT !.state = IdleState]
    ELSE [processingRef |-> TRUE,
          drains |-> Append(q.drains, [cands |-> cands, pos |-> 1, failed |-> {}]),
          state |-> [isAutoSummarizing |-> TRUE,
                     currentArticleId |-> Some(cands[1]),
                     progress |-> [current |-> 0, total |-> Len(cands)]],
          requestedSince |-> q.requestedSince \cup {cands[1]}]

\* A list-change effect that also runs visibleIds.current.clear().
SetArticlesClearingVisible(newList) ==
  /\ changes < MaxListChanges
  /\ changes' = changes + 1
  /\ list' = newList
  /\ elementRefs' = (elementRefs \ (Range(list) \ Range(newList)))
                      \cup (Range(newList) \ Range(list))
  /\ visibleIds' = {}
  /\ abortRef' = FALSE
  /\ processingRef' = FALSE
  /\ timer' = TRUE
  /\ requestedSince' = {}
  /\ UNCHANGED <<summarized, drains, state>>
  /\ UNCHANGED <<articles, clock, behaviour, streamVars, syncVars, handlerVars, adapterVars, callVars>>

\* A list-change effect that arms no timer: only the observer triggers drains.
SetArticlesWithoutTimer(newList) ==
  /\ changes < MaxListChanges
  /\ changes' = changes + 1
  /\ list' = newList
  /\ elementRefs' = (elementRefs \ (Range(list) \ Range(newList)))
                      \cup (Range(newList) \ Range(list))
  /\ visibleIds' = visibleIds \ (Range(list) \ Range(newList))
  /\ abortRef' = FALSE
  /\ processingRef' = FALSE
  /\ timer' = FALSE
  /\ requestedSince' = {}
  /\ UNCHANGED <<summarized, drains, state>>
  /\ UNCHANGED <<articles, clock, behaviour, streamVars, syncVars, handlerVars, adapterVars, callVars>>

\* A list-change commit whose unmounting items leave their ids in the
\* visible set (registerRef(id, null) without visibleIds.current.delete(id)).
SetArticlesKeepingVisible(newList) ==
  /\ changes < MaxListChanges
  /\ changes' = changes + 1
  /\ list' = newList
  /\ elementRefs' = (elementRefs \ (Range(list) \ Range(newList)))
                      \cup (Range(newList) \ Range(list))
  /\ visibleIds' = visibleIds
  /\ abortRef' = FALSE
  /\ processingRef' = FALSE
  /\ timer' = TRUE
  /\ requestedSince' = {}
  /\ UNCHANGED <<summarized, drains, state>>
  /\ UNCHANGED <<articles, clock, behaviour, streamVars, syncVars, handlerVars, adapterVars, callVars>>

\* The list state changes (fetchArticles answered, the sort or the filter
\* changed) and React commits the render: the items that left the list
\* unmount (registerRef(id, null)), the new ones mount (registerRef(id, el)),
\* then both effects of the hook are cleaned up and run again: the observer is
\* rebuilt on the registered elements, abortRef goes true and back to false,
\* processingRef is reset and the debounce timer is armed anew.
SetArticles(newList) ==
  /\ changes < MaxListChanges
  /\ changes' = changes + 1
  /\ list' = newList
  /\ elementRefs' = (elementRefs \ (Range(list) \ Range(newList)))
                      \cup (Range(newList) \ Range(list))
  /\ visibleIds' = visibleIds \ (Range(list) \ Range(newList))
  /\ abortRef' = FALSE
  /\ processingRef' = FALSE
  /\ timer' = TRUE
  /\ requestedSince' = {}
  /\ UNCHANGED <<summarized, drains, state>>
  /\ UNCHANGED <<articles, clock, behaviour, streamVars, syncVars, handlerVars, adapterVars, callVars>>

\* The IntersectionObserver's callback with one entry per element of
\* `targets`, those of `intersecting` with isIntersecting: the visible set is
\* updated entry by entry, then processQueue is called unless a drain is
\* marked in flight.
ObserverCallback(targets, intersecting) ==
  /\ targets # {} /\ targets \subseteq elementRefs
  /\ intersecting \subseteq targets
  /\ visibleIds' = (visibleIds \ targets) \cup intersecting
  /\ LET q == IF processingRef THEN Refs
              ELSE processQueue(Refs, list, (visibleIds \ targets) \cup intersecting,
                                summarized, abortRef)
     IN /\ processingRef' = q.processingRef
        /\ drains' = q.drains
        /\ state' = q.state
        /\ requestedSince' = q.requestedSince
  /\ UNCHANGED <<list, summarized, elementRefs, abortRef, timer, changes>>
  /\ UNCHANGED <<articles, clock, behaviour, streamVars, syncVars, handlerVars, adapterVars, callVars>>

\* The debounce timer of the list-change effect fires: processQueue().
TimerFire ==
  /\ timer
  /\ timer' = FALSE
  /\ LET q == processQueue(Refs, list, visibleIds, summarized, abortRef)
     IN /\ processingRef' = q.processingRef
        /\ drains' = q.drains
        /\ state' = q.state
        /\ requestedSince' = q.requestedSince
  /\ UNCHANGED <<list, summarized, elementRefs, visibleIds, abortRef, changes>>
  /\ UNCHANGED <<articles, clock, behaviour, streamVars, syncVars, handlerVars, adapterVars, callVars>>

\* A loop without the try/catch around await summarize: a failure rejects
\* processQueue, the rest of the candidates is never requested and
\* processingRef stays set.
DrainContinueUncaught(q, k, ok, abort) ==
  LET d == q.drains[k]
      progress == [current |-> d.pos, total |-> Len(d.cands)]
      without == SubSeq(q.drains, 1, k - 1) \o SubSeq(q.drains, k + 1, Len(q.drains))
  IN IF ~ok
     THEN [q EXCEPT !.drains = without]
     ELSE IF d.pos < Len(d.cands) /\ ~abort
     THEN [processingRef |-> q.processingRef,
           drains |-> [q.drains EXCEPT ![k] = [d EXCEPT !.pos = d.pos + 1]],
           state |-> [q.state EXCEPT !.currentArticleId = Some(d.cands[d.pos + 1]),
                                     !.progress = progress],
           requestedSince |-> q.requestedSince \cup {d.cands[d.pos + 1]}]
     ELSE [processingRef |-> FALSE,
           drains |-> without,
           state |-> [isAutoSummarizing |-> FALSE, currentArticleId |-> None,
                      progress |-> progress],
           requestedSince |-> q.requestedSince]

\* A loop that does not test abortRef before the next candidate.
DrainContinueIgnoringAbort(q, k, ok, abort) ==
  LET d == q.drains[k]
      failed == IF ok THEN d.failed ELSE d.failed \cup {d.pos}
      progress == [current |-> d.pos, total |-> Len(d.cands)]
      without == SubSeq(q.drains, 1, k - 1) \o SubSeq(q.drains, k + 1, Len(q.drains))
  IN IF d.pos < Len(d.cands)
     THEN [processingRef |-> q.processingRef,
           drains |-> [q.drains EXCEPT ![k] = [d EXCEPT !.pos = d.pos + 1,
                                                        !.failed = failed]],
           state |-> [q.state EXCEPT !.currentArticleId = Some(d.cands[d.pos + 1]),
                                     !.progress = progress],
           requestedSince |-> q.requestedSince \cup {d.cands[d.pos + 1]}]
     ELSE [processingRef |-> FALSE,
           drains |-> without,
           state |-> [isAutoSummarizing |-> FALSE, currentArticleId |-> None,
                      progress |-> progress],
           requestedSince |-> q.requestedSince]

\* The loop of drain k after its await: the progress is published, then
\* either the next candidate is requested (abortRef is false; article.summary
\* is read from the article object the filter kept, which no one mutates, so
\* it is still empty) or the loop is over: processingRef is cleared and the
\* idle flags are published.
DrainContinue(q, k, ok, abort) ==
  LET d == q.drains[k]
      failed == IF ok THEN d.failed ELSE d.failed \cup {d.pos}
      progress == [current |-> d.pos, total |-> Len(d.cands)]
      without == SubSeq(q.drains, 1, k - 1) \o SubSeq(q.drains, k + 1, Len(q.drains))
  IN IF d.pos < Len(d.cands) /\ ~abort
     THEN [processingRef |-> q.processingRef,
           drains |-> [q.drains EXCEPT ![k] = [d EXCEPT !.pos = d.pos + 1,
                                                        !.failed = failed]],
           state |-> [q.state EXCEPT !.currentArticleId = Some(d.cands[d.pos + 1]),
                                     !.progress = progress],
           requestedSince |-> q.requestedSince \cup {d.cands[d.pos + 1]}]
     ELSE [processingRef |-> FALSE,
           drains |-> without,
           state |-> [isAutoSummarizing |-> FALSE, currentArticleId |-> None,
                      progress |-> progress],
           requestedSince |-> q.requestedSince]

\* The summarize(id) that drain k awaits settles. A failure is caught and
\* logged by the loop. A success has put the summary into the list state
\* (setArticles(prev => prev.map(...))): the drain goes on, then React commits
\* the new list and both effects run again as for any list change.
SummarizeReturn(k, ok) ==
  /\ k \in DOMAIN drains
  /\ LET q == DrainContinue(Refs, k, ok, abortRef)
         id == drains[k].cands[drains[k].pos]
     IN /\ drains' = q.drains
        /\ state' = q.state
        /\ IF ok
           THEN /\ summarized' = summarized \cup {id}
                /\ processingRef' = FALSE
                /\ timer' = TRUE
                /\ requestedSince' = {}
           ELSE /\ summarized' = summarized
                /\ processingRef' = q.processingRef
                /\ timer' = timer
                /\ requestedSince' = q.requestedSince
  /\ abortRef' = FALSE
  /\ UNCHANGED <<list, elementRefs, visibleIds, changes>>
  /\ UNCHANGED <<articles, clock, behaviour, streamVars, syncVars, handlerVars, adapterVars, callVars>>

\* The hook mounted on an empty list, the server idle. The server may
\* already hold a summary for the first article.
QueueInit ==
  /\ articles = <<>>
  /\ clock = 0
  /\ behaviour = [n \in SourceNames |-> [kind |-> "hang"]]
  /\ sPc = "idle" /\ sI = 0 /\ events = <<>> /\ sCalls = <<>> /\ sInflight = {}
  /\ aPc = "idle" /\ aI = 0 /\ results = <<>> /\ aCalls = <<>> /\ aInflight = {}
  /\ sumReq = [r \in 1..MaxRequests |-> [pc |-> "idle"]]
  /\ engReq = [pc |-> "idle", answer |-> None]
  /\ \E summ \in {{}, {1}} : QueueMounted(summ)
  /\ AdaptersIdle(<<>>)
  /\ listing = None
  /\ scoring = None
  /\ parsing = None
  /\ reader = None

\* The observer's callbacks are taken with an entry for every registered
\* element (as the first callback of a rebuilt observer has): a callback with
\* fewer entries acts as one that reports the other elements as they are.
QueueNext ==
  \/ \E newList \in Lists : SetArticles(newList)
  \/ \E intersecting \in SUBSET elementRefs :
       ObserverCallback(elementRefs, intersecting)
  \/ TimerFire
  \/ \E k \in DOMAIN drains : \E ok \in BOOLEAN : SummarizeReturn(k, ok)

QueueSpec == QueueInit /\ [][QueueNext]_vars

\* The timer fires and every summarize call returns.
FairQueueSpec ==
  /\ QueueInit /\ [][QueueNext]_vars
  /\ WF_vars(TimerFire)
  /\ WF_vars(\E k \in DOMAIN drains : \E ok \in BOOLEAN : SummarizeReturn(k, ok))

\* The hook's component unmounts: the cleanup of the observer effect
\* disconnects the observer, the cleanup of the list-change effect clears the
\* timer and sets abortRef, and no effect runs again.
Unmount ==
  /\ ~abortRef
  /\ abortRef' = TRUE
  /\ timer' = FALSE
  /\ UNCHANGED <<list, summarized, elementRefs, visibleIds, processingRef, drains,
                 state, changes, requestedSince>>
  /\ UNCHANGED <<articles, clock, behaviour, streamVars, syncVars, handlerVars, adapterVars, callVars>>

\* The summarize(id) that drain k awaits settles after the unmount: the loop
\* goes on from its await, and no render follows the new summary.
SummarizeReturnUnmounted(k, ok) ==
  /\ abortRef
  /\ k \in DOMAIN drains
  /\ LET q == DrainContinue(Refs, k, ok, abortRef)
         id == drains[k].cands[drains[k].pos]
     IN /\ drains' = q.drains
        /\ state' = q.state
        /\ processingRef' = q.processingRef
        /\ requestedSince' = q.requestedSince
        /\ summarized' = IF ok THEN summarized \cup {id} ELSE summarized
  /\ UNCHANGED <<list, elementRefs, visibleIds, abortRef, timer, changes>>
  /\ UNCHANGED <<articles, clock, behaviour, streamVars, syncVars, handlerVars, adapterVars, callVars>>

\* The hook until and after its teardown. After the unmount the requests in
\* flight still settle, and a callback the observer had queued before
\* disconnect() may still be delivered.
TeardownNext ==
  \/ ~abortRef /\ QueueNext
  \/ Unmount
  \/ abortRef /\ \E intersecting \in SUBSET elementRefs :
                   ObserverCallback(elementRefs, intersecting)
  \/ \E k \in DOMAIN drains : \E ok \in BOOLEAN : SummarizeReturnUnmounted(k, ok)

TeardownSpec == QueueInit /\ [][TeardownNext]_vars

\* ------------------------------------------------------ engagement service

\* A JavaScript number: NaN, or Num(n) for the integer n.
NaN == <<>>
Num(n) == <<n>>

\* NORMALIZATION_SCALES[sourceType] || 1000
NormalizationScale(sourceType) ==
  CASE sourceType = "reddit" -> 10000
    [] sourceType = "hackernews" -> 500
    [] sourceType = "youtube" -> 1000000
    [] OTHER -> 1000

\* Math.round(Math.log10(raw + 1) / Math.log10(scale + 1) * 100) by its steps:
\* entry k of a scale's table is the least raw >= 1 for which the rounded
\* value is at least k, that is the least raw with
\* (raw + 1)^200 >= (scale + 1)^(2k - 1), for k = 1..101.
RoundSteps500 ==
  << 1, 1, 1, 1, 1, 1, 1, 1, 1, 1, 1, 2, 2, 2, 2, 2, 2, 2, 3, 3, 3, 3, 4, 4, 4,
     4, 5, 5, 5, 6, 6, 7, 7, 8, 8, 9, 9, 10, 10, 11, 12, 13, 14, 14, 15, 16,
     18, 19, 20, 21, 23, 24, 26, 27, 29, 31, 33, 35, 37, 40, 42, 45, 48, 51,
     55, 58, 62, 66, 70, 75, 80, 85, 90, 96, 102, 109, 116, 123, 131, 140, 149,
     158, 168, 179, 191, 203, 216, 230, 245, 260, 277, 295, 314, 334, 355, 378,
     403, 428, 456, 485, 516 >>

RoundSteps1000 ==
  << 1, 1, 1, 1, 1, 1, 1, 1, 1, 1, 2, 2, 2, 2, 2, 2, 3, 3, 3, 3, 4, 4, 4, 5, 5,
     5, 6, 6, 7, 7, 8, 8, 9, 10, 10, 11, 12, 13, 14, 15, 16, 17, 18, 20, 21,
     23, 24, 26, 28, 30, 32, 35, 37, 40, 43, 46, 49, 53, 56, 60, 65, 70, 75,
     80, 86, 92, 98, 105, 113, 121, 130, 139, 149, 160, 171, 184, 197, 211,
     226, 242, 260, 278, 298, 320, 343, 367, 393, 422, 452, 484, 519, 556, 596,
     638, 684, 733, 785, 842, 902, 967, 1036 >>

RoundSteps10000 ==
  << 1, 1, 1, 1, 1, 1, 1, 1, 2, 2, 2, 2, 3, 3, 3, 4, 4, 5, 5, 6, 6, 7, 7, 8, 9,
     10, 11, 12, 13, 15, 16, 18, 19, 21, 23, 26, 28, 31, 34, 38, 41, 45, 50,
     54, 60, 66, 72, 79, 87, 95, 104, 114, 125, 138, 151, 165, 181, 199, 218,
     239, 263, 288, 316, 346, 380, 416, 457, 501, 549, 602, 660, 724, 794, 871,
     955, 1047, 1148, 1259, 1380, 1513, 1659, 1819, 1995, 2187, 2399, 2630,
     2884, 3162, 3467, 3802, 4169, 4571, 5012, 5495, 6026, 6607, 7245, 7944,
     8710, 9550, 10472 >>

RoundSteps1000000 ==
  << 1, 1, 1, 1, 1, 2, 2, 2, 3, 3, 4, 4, 5, 6, 7, 8, 9, 11, 12, 14, 16, 19, 22,
     25, 29, 33, 38, 44, 51, 58, 67, 77, 89, 102, 117, 134, 154, 177, 204, 234,
     269, 309, 354, 407, 467, 537, 616, 707, 812, 933, 1071, 1230, 1412, 1621,
     1862, 2137, 2454, 2818, 3235, 3715, 4265, 4897, 5623, 6456, 7413, 8511,
     9772, 11220, 12882, 14791, 16982, 19498, 22387, 25703, 29512, 33884,
     38904, 44668, 51286, 58884, 67608, 77624, 89125, 102329, 117489, 134896,
     154881, 177828, 204173, 234423, 269153, 309029, 354813, 407380, 467735,
     537032, 616595, 707946, 812831, 933255, 1071520 >>

RoundSteps(scale) ==
  CASE scale = 500 -> RoundSteps500
    [] scale = 1000 -> RoundSteps1000
    [] scale = 10000 -> RoundSteps10000
    [] scale = 1000000 -> RoundSteps1000000

\* The rounded value for raw >= 1, counted up to 101 (all the clamp needs).
RoundedLogRatio(raw, scale) ==
  Cardinality({ k \in DOMAIN RoundSteps(scale) : RoundSteps(scale)[k] <= raw })

\* normalizeEngagement without the Math.min(100, ...).
normalizeEngagementUnclamped(raw, sourceType) ==
  IF raw = NaN THEN NaN
  ELSE IF Get(raw) <= 0 THEN Num(0)
  ELSE Num(RoundedLogRatio(Get(raw), NormalizationScale(sourceType)))

\* normalizeEngagement with Reddit's scale for every source type.
normalizeEngagementOneScale(raw, sourceType) ==
  IF raw = NaN THEN NaN
  ELSE IF Get(raw) <= 0 THEN Num(0)
  ELSE LET rounded == RoundedLogRatio(Get(raw), 10000)
       IN Num(IF rounded < 100 THEN rounded ELSE 100)

\* normalizeEngagement that answers 0 where the rounded value passes 100.
normalizeEngagementWrapping(raw, sourceType) ==
  IF raw = NaN THEN NaN
  ELSE IF Get(raw) <= 0 THEN Num(0)
  ELSE LET rounded == RoundedLogRatio(Get(raw), NormalizationScale(sourceType))
       IN Num(IF rounded <= 100 THEN rounded ELSE 0)

\* normalizeEngagement(raw, sourceType). NaN <= 0 is false and NaN goes
\* through log10, the division, Math.round and Math.min as NaN.
normalizeEngagement(raw, sourceType) ==
  IF raw = NaN THEN NaN
  ELSE IF Get(raw) <= 0 THEN Num(0)
  ELSE LET rounded == RoundedLogRatio(Get(raw), NormalizationScale(sourceType))
       IN Num(IF rounded < 100 THEN rounded ELSE 100)

\* A number bound to a statement parameter: SQLite stores NaN as NULL.
SqlNumber(x) == IF x = NaN THEN None ELSE Some(Get(x))

\* The raw counts the remote payloads and parseEngagementNumber deliver: a
\* missing or unparseable count is NaN.
RawSamples ==
  { NaN } \cup { Num(n) : n \in {0 - 5, 0, 1, 516, 2000000} }

\* The articles the engagement paths write, by source type and natural key.
EngagementItems ==
  { <<"reddit", <<1, 1>>>>, <<"hackernews", <<1, 1>>>>,
    <<"youtube", <<1, 1>>>>, <<"rss", <<1, 1>>>> }

\* const score = item.score || 0   (Hacker News; Reddit passes post.data.score)
InlineRaw(type, raw) ==
  IF type = "hackernews" /\ (raw = NaN \/ raw = Num(0)) THEN Num(0) ELSE raw

\* One item of a Reddit or Hacker News refresh with the count `raw`: the
\* draft carries normalizeEngagement(score, type) and String(score), and
\* insertArticle binds them.
InlineEngagementUpsert(type, key, raw) ==
  /\ type \in {"reddit", "hackernews"}
  /\ LET score == InlineRaw(type, raw)
         draft == [AdapterDraft(type, key, 0, clock, FALSE, None) EXCEPT
                     !.engagement_score = SqlNumber(normalizeEngagement(score, type)),
                     !.engagement_raw = Some(score)]
     IN articles' = insertArticle(articles, draft)
  /\ UNCHANGED <<clock, behaviour, queueVars, streamVars, syncVars, handlerVars, adapterVars, callVars>>

\* One item of a YouTube refresh. With skip_engagement the draft carries no
\* engagement; without it extractYouTubeViews(article.url) supplies it.
\* extractYouTubeViews is not among the sources: as the specification
\* describes it, the view count `raw` is scored by normalizeEngagement.
YouTubeUpsert(key, skip, raw) ==
  /\ LET views == SqlNumber(normalizeEngagement(raw, "youtube"))
         draft == AdapterDraft("youtube", key, 0, clock, skip, views)
         counted == IF draft.engagement_raw = None THEN draft
                    ELSE [draft EXCEPT !.engagement_raw = Some(raw)]
     IN articles' = insertArticle(articles, counted)
  /\ UNCHANGED <<clock, behaviour, queueVars, streamVars, syncVars, handlerVars, adapterVars, callVars>>

\* A refresh inserts an item of a feed source, which computes no engagement.
PlainUpsert(type, key) ==
  /\ type \in {"rss", "podcast"}
  /\ articles' = insertArticle(articles, AdapterDraft(type, key, 0, clock, TRUE, None))
  /\ UNCHANGED <<clock, behaviour, queueVars, streamVars, syncVars, handlerVars, adapterVars, callVars>>

\* fetch-engagement for a stored article whose page was scraped and whose
\* count the model answered: extractEngagementWithLLM returns null for
\* rawNumber === 0 (nothing is stored), else normalizeEngagement(rawNumber,
\* sourceType), which updateEngagement binds.
LazyEngagementUpdate(id, rawNumber) ==
  /\ id \in DOMAIN articles
  /\ LET score == normalizeEngagement(rawNumber, articles[id].source_type)
     IN articles' =
          IF rawNumber = Num(0) THEN articles
          ELSE IF score = NaN
          THEN [updateEngagement(articles, id, 0, rawNumber, "views", clock)
                  EXCEPT ![id].engagement_score = None]
          ELSE updateEngagement(articles, id, Get(score), rawNumber, "views", clock)
  /\ UNCHANGED <<clock, behaviour, queueVars, streamVars, syncVars, handlerVars, adapterVars, callVars>>

EngagementNext ==
  \/ \E it \in EngagementItems, raw \in RawSamples :
       InlineEngagementUpsert(it[1], it[2], raw)
  \/ \E skip \in BOOLEAN, raw \in RawSamples : YouTubeUpsert(<<1, 1>>, skip, raw)
  \/ \E it \in EngagementItems : PlainUpsert(it[1], it[2])
  \/ \E it \in EngagementItems, raw \in RawSamples :
       LazyEngagementUpdate(ArticleId(it[1], it[2]), raw)

\* The engagement writers on an empty store.
EngagementSpec == StoreInit /\ [][EngagementNext]_vars

\* ------------------------------------------------------ adapter behaviours

\* The adapters' refresh loops against origins that may fail, the source
\* table left as migrated.
AdapterNext ==
  \/ \E kind \in LoopKinds : RefreshStart(kind)
  \/ \E outcome \in OriginOutcomes : RefreshOrigin(outcome)

\* A healthy origin.
HealthyOutcomes == {"items"}

\* The values and flags the source routes are called with.
SourceInputs ==
  { [type |-> t, name |-> MaxOrigins + 1, value |-> MaxOrigins + 1] : t \in {"rss", "reddit"} }

SourceUpdates == { [enabled |-> 0], [enabled |-> 1], [value |-> MaxOrigins + 1] }

\* The rows the source routes are called for: the first row of every kind
\* and the rows added since.
EditedIds ==
  { (k - 1) * MaxOrigins + 1 : k \in DOMAIN MigrationOrder }
  \cup { i \in DOMAIN sources : i > Len(MigrationOrder) * MaxOrigins }

\* Source edits between and during the refreshes of healthy origins.
SourcesNext ==
  \/ \E source \in SourceInputs : AddSource(source)
  \/ \E id \in EditedIds, updates \in SourceUpdates : UpdateSource(id, updates)
  \/ \E id \in EditedIds : DeleteSource(id)
  \/ \E id \in EditedIds : ToggleSource(id)
  \/ \E kind \in LoopKinds : RefreshStart(kind)
  \/ \E outcome \in HealthyOutcomes : RefreshOrigin(outcome)

AdapterSpec == StoreInit /\ [][AdapterNext]_vars

SourcesSpec == StoreInit /\ [][SourcesNext]_vars

\* Strings of the Hacker News filter are sequences of characters.
LowerChar(c) ==
  CASE c = "A" -> "a" [] c = "B" -> "b" [] c = "K" -> "k" [] c = "M" -> "m"
    [] OTHER -> c

\* String.prototype.toLowerCase
toLowerCase(str) == [i \in DOMAIN str |-> LowerChar(str[i])]

\* String.prototype.includes
includes(str, sub) ==
  \E off \in 0..(Len(str) - Len(sub)) : SubSeq(str, off + 1, off + Len(sub)) = sub

\* A filter that asks whether a keyword contains the title.
matchesKeywordsReversed(title, kws) ==
  \E k \in DOMAIN kws : includes(toLowerCase(kws[k]), toLowerCase(title))

\* keywords.some(kw => lowerTitle.includes(kw.toLowerCase()))
matchesKeywords(title, kws) ==
  \E k \in DOMAIN kws : includes(toLowerCase(title), toLowerCase(kws[k]))

\* The keyword lists sources.json may configure.
KeywordLists ==
  { <<>>, << <<"a", "b">> >>, << <<"B">>, <<"x", "x">> >>, << <<>> >> }

\* The titles of the items Hacker News serves; the empty title stands for an
\* item without one.
Titles == { <<>>, <<"a">>, <<"A", "b">>, <<"b", "A">>, <<"x", "a", "B">> }

\* The top stories the handler looks at in one refresh.
MaxStories == 2

\* What fetchItem resolves to: null, or the item.
HNItems ==
  { None } \cup { Some([type |-> ty, title |-> t]) : ty \in {"story", "comment"}, t \in Titles }

\* if (!item || item.type !== 'story' || !item.title) continue
\* if (!matchesKeywords(item.title, keywords)) continue
HNAccepted(item, kws) ==
  /\ item # None
  /\ Get(item).type = "story"
  /\ Get(item).title # <<>>
  /\ matchesKeywords(Get(item).title, kws)

\* The article of item number j.
HNDraft(j, item, now) ==
  [AdapterDraft("hackernews", <<1, j>>, 0, now, FALSE, None) EXCEPT !.title = Get(item).title]

\* POST /api/hackernews/refresh. `top` is what the top stories request came
\* to and `items` what Promise.all(topIds.map(fetchItem)) resolved to. The
\* handler reads and writes the store only after its last await: it inserts
\* every accepted item and answers the count; when the top stories request
\* is not OK or rejects it answers success: false.
HackerNewsRefresh(top, items) ==
  /\ run.pc \in {"idle", "answered"}
  /\ LET accepted == { j \in DOMAIN items : HNAccepted(items[j], keywords) } IN
       IF top = "ok"
       THEN /\ articles' = insertAll(articles, { HNDraft(j, items[j], clock) : j \in accepted })
            /\ run' = [pc |-> "answered", kind |-> "hackernews", success |-> TRUE,
                       items |-> items,
                       upserted |-> { ArticleId("hackernews", <<1, j>>) : j \in accepted },
                       results |-> << [source |-> "Hacker News",
                                       count |-> Cardinality(accepted)] >>]
       ELSE /\ articles' = articles
            /\ run' = [pc |-> "answered", kind |-> "hackernews", success |-> FALSE,
                       items |-> <<>>, upserted |-> {}, results |-> <<>>]
  /\ UNCHANGED <<keywords, sources, sourceSeq, edits>>
  /\ UNCHANGED <<clock, behaviour, queueVars, streamVars, syncVars, handlerVars, callVars>>

HackerNewsInit == \E kws \in KeywordLists : StoreConstructed(kws)

HackerNewsNext ==
  \E top \in {"ok", "status", "reject"}, items \in [1..MaxStories -> HNItems] :
    HackerNewsRefresh(top, items)

\* The Hacker News refresh under every configured keyword list.
HackerNewsSpec == HackerNewsInit /\ [][HackerNewsNext]_vars

\* ---------------------------------------------------------- article listing

\* SELECT * FROM articles: every stored row with its id column.
SqlRows(db) == { [id |-> id] @@ db[id] : id \in DOMAIN db }

\* COALESCE(engagement_score, 0)
EffectiveScore(row) ==
  IF IsSome(row.engagement_score) THEN Get(row.engagement_score) ELSE 0

\* a > b in SQLite's ordering of one column: NULL is lower than every value.
SqlGreater(a, b) == IsSome(a) /\ (b = None \/ Get(a) > Get(b))

\* ORDER BY published_at DESC: row a must come before row b.
RecentPrecedes(a, b) == SqlGreater(a.published_at, b.published_at)

\* An ordering for sort top that looks at the publish date first.
TopPrecedesDateFirst(a, b) ==
  \/ SqlGreater(a.published_at, b.published_at)
  \/ /\ a.published_at = b.published_at
     /\ EffectiveScore(a) > EffectiveScore(b)

\* ORDER BY COALESCE(engagement_score, 0) DESC, published_at DESC: row a must
\* come before row b.
TopPrecedes(a, b) ==
  \/ EffectiveScore(a) > EffectiveScore(b)
  \/ /\ EffectiveScore(a) = EffectiveScore(b)
     /\ SqlGreater(a.published_at, b.published_at)

\* const orderBy = sort === 'top' ? ... : 'ORDER BY published_at DESC'
OrderByPrecedes(sort, a, b) ==
  IF sort = "top" THEN TopPrecedes(a, b) ELSE RecentPrecedes(a, b)

\* The orders ORDER BY allows for a set of rows: rows the clause does not tell
\* apart come in any order.
Orderings(rows, sort) ==
  { s \in [1..Cardinality(rows) -> rows] :
      /\ \A i, j \in DOMAIN s : i # j => s[i] # s[j]
      /\ \A i, j \in DOMAIN s : i < j => ~OrderByPrecedes(sort, s[j], s[i]) }

\* getTimePeriodFilter: AND published_at >= '<now minus one period>', nothing
\* for 'all'. Instants are whole days; the query is made on a date whose
\* previous month has 30 days and whose past year has 365.
getTimePeriodFilter(period, now) ==
  CASE period = "day" -> Some(now - 1)
    [] period = "week" -> Some(now - 7)
    [] period = "month" -> Some(now - 30)
    [] period = "year" -> Some(now - 365)
    [] OTHER -> None

\* A row passes the filter: a NULL published_at fails the comparison.
PassesTimeFilter(row, timeFilter) ==
  \/ timeFilter = None
  \/ /\ IsSome(row.published_at)
     /\ Get(row.published_at) >= Get(timeFilter)

Min(a, b) == IF a < b THEN a ELSE b

\* getArticles(sourceType, limit, offset, sort, timePeriod) at the instant
\* `now`: the results the query may return. The period only filters under
\* sort top; an absent (or empty) sourceType selects every type.
getArticles(db, sourceType, limit, offset, sort, timePeriod, now) ==
  LET timeFilter == IF sort = "top" THEN getTimePeriodFilter(timePeriod, now)
                    ELSE None
      matched == { r \in SqlRows(db) :
                     /\ IsSome(sourceType) => r.source_type = Get(sourceType)
                     /\ PassesTimeFilter(r, timeFilter) }
  IN { SubSeq(s, offset + 1, Min(offset + limit, Len(s))) :
         s \in Orderings(matched, sort) }

\* GET /api/articles on day `now`: the parsed query goes to getArticles and
\* the rows are the answer.
GetArticles(q, now) ==
  /\ \E rows \in getArticles(articles, q.source, q.limit, q.offset, q.sort,
                             q.period, now) :
       listing' = Some([query |-> q, now |-> now, rows |-> rows])
  /\ UNCHANGED <<articles, clock, behaviour, queueVars, streamVars, syncVars, handlerVars, adapterVars, scoring, parsing, reader>>

\* The items of the stores queried: two Reddit posts and one RSS entry.
QueryItems == { <<"reddit", <<1, 1>>>>, <<"reddit", <<1, 2>>>>, <<"rss", <<1, 1>>>> }

\* Days of publication: long ago, 30 days, 7 days and one day before day 10,
\* and the day after it.
PublishDays == {-400, -20, 3, 9, 11}

\* The days on which the list is queried.
QueryDays == {10, 11}

\* published_at of a draft: Reddit always carries created_utc, a feed entry
\* may lack pubDate.
PublishedAts(type) ==
  { Some(d) : d \in PublishDays } \cup (IF type = "reddit" THEN {} ELSE {None})

\* The drafts an adapter may have upserted for an item, with the item absent
\* as None.
QueryDrafts(item) ==
  {None} \cup
  { Some([AdapterDraft(item[1], item[2], score, 0, FALSE, None)
            EXCEPT !.published_at = pub]) :
      score \in SampleScores, pub \in PublishedAts(item[1]) }

\* The stores the refreshes can have built.
QueryStores ==
  { insertAll(<<>>, { Get(c[item]) : item \in { i \in QueryItems : IsSome(c[i]) } }) :
      c \in { f \in [QueryItems -> UNION { QueryDrafts(i) : i \in QueryItems }] :
                \A i \in QueryItems : f[i] \in QueryDrafts(i) } }

\* The queries of the client: every period under sort top, a source filter,
\* a second page of one row, and sort recent with a period.
Queries ==
  { [source |-> None, limit |-> 100, offset |-> 0, sort |-> "top", period |-> p] :
      p \in {"day", "week", "month", "year", "all"} }
  \cup { [source |-> Some("reddit"), limit |-> 100, offset |-> 0, sort |-> "top",
          period |-> p] : p \in {"week", "all"} }
  \cup { [source |-> None, limit |-> 1, offset |-> 1, sort |-> "top", period |-> "all"],
         [source |-> None, limit |-> 100, offset |-> 0, sort |-> "recent", period |-> "day"] }

QueryInit ==
  articles \in QueryStores /\ scoring = None /\ parsing = None /\ reader = None
  /\ ServerConstructed(<<>>)

QueryNext == \E q \in Queries, now \in QueryDays : GetArticles(q, now)

QuerySpec == QueryInit /\ [][QueryNext]_vars

\* ------------------------------------------------- normalizeEngagement calls

\* The source types a call is made with; "mastodon" is one that no branch of
\* normalizeEngagement names.
ScoredTypes == {"reddit", "hackernews", "youtube", "rss", "podcast", "mastodon"}

\* The counts a call is made with, around the ends of the source type's
\* range: negative, 0, 1, either side of the count from which the rounded
\* value is 100, either side of the scale, twice the scale, and NaN.
ScoredRaws(sourceType) ==
  LET scale == NormalizationScale(sourceType)
      full == RoundSteps(scale)[100]
  IN { NaN } \cup
     { Num(n) : n \in {0 - 5, 0 - 1, 0, 1, full - 1, full, scale - 1, scale,
                       scale + 1, 2 * scale} }

\* normalizeEngagement(raw, sourceType) is called and returns.
Normalize ==
  /\ scoring # None /\ scoring.score = None
  /\ scoring' = [scoring EXCEPT
                   !.score = Some(normalizeEngagement(scoring.raw, scoring.sourceType))]
  /\ UNCHANGED <<articles, clock, behaviour, queueVars, streamVars, syncVars, handlerVars, adapterVars, listing, parsing, reader>>

NormalizeInit ==
  /\ articles = <<>>
  /\ parsing = None
  /\ reader = None
  /\ ServerConstructed(<<>>)
  /\ scoring \in { [raw |-> raw, sourceType |-> t, score |-> None] :
                     raw \in UNION { ScoredRaws(u) : u \in ScoredTypes }, t \in ScoredTypes }

NormalizeNext == Normalize

NormalizeSpec == NormalizeInit /\ [][NormalizeNext]_vars

\* normalizeEngagement(raw, sourceType) is called once more, with the same
\* source type and any count; the call before it is kept for comparison.
NormalizeAgain(raw) ==
  /\ scoring # None /\ IsSome(scoring.score)
  /\ scoring' = [raw |-> raw, sourceType |-> scoring.sourceType,
                 score |-> Some(normalizeEngagement(raw, scoring.sourceType)),
                 before |-> [raw |-> scoring.raw, score |-> Get(scoring.score)]]
  /\ UNCHANGED <<articles, clock, behaviour, queueVars, streamVars, syncVars, handlerVars, adapterVars, listing, parsing, reader>>

RepeatedNext ==
  \/ Normalize
  \/ \E raw \in ScoredRaws(scoring.sourceType) : NormalizeAgain(raw)

\* Calls of normalizeEngagement one after the other.
RepeatedSpec == NormalizeInit /\ [][RepeatedNext]_vars

\* ---------------------------------------------- parseEngagementNumber calls

\* str.replace(/,/g, '')
replaceCommas(str) == SelectSeq(str, LAMBDA c : c # ",")

\* String.prototype.trim: the text between the first and the last character
\* that is not white space.
trim(str) ==
  LET inked == { i \in DOMAIN str : str[i] # " " }
  IN IF inked = {} THEN <<>>
     ELSE SubSeq(str, CHOOSE i \in inked : \A j \in inked : i <= j,
                      CHOOSE i \in inked : \A j \in inked : j <= i)

\* String.prototype.endsWith with a suffix of one character.
endsWith(str, suffix) == Len(str) >= 1 /\ str[Len(str)] = suffix

DecimalDigits == {"0", "1", "2", "3", "4", "5", "6", "7", "8", "9"}

DigitValue(c) ==
  CASE c = "0" -> 0 [] c = "1" -> 1 [] c = "2" -> 2 [] c = "3" -> 3 [] c = "4" -> 4
    [] c = "5" -> 5 [] c = "6" -> 6 [] c = "7" -> 7 [] c = "8" -> 8 [] c = "9" -> 9

\* The number of decimal digits of str from position `from` on.
DigitRun(str, from) ==
  Cardinality({ n \in 1..Len(str) :
                  \A i \in from..(from + n - 1) :
                    i <= Len(str) /\ str[i] \in DecimalDigits })

RECURSIVE DecimalValue(_)
\* The value of a run of digits (0 for the empty run).
DecimalValue(digits) ==
  IF digits = <<>> THEN 0
  ELSE 10 * DecimalValue(SubSeq(digits, 1, Len(digits) - 1))
       + DigitValue(digits[Len(digits)])

RECURSIVE PowerOfTen(_)
PowerOfTen(n) == IF n = 0 THEN 1 ELSE 10 * PowerOfTen(n - 1)

\* parseFloat: leading white space is skipped and the longest prefix that is
\* a decimal literal (digits, an optional point, digits; at least one digit)
\* is read; NaN when there is none. The value is the fraction num / den.
\* Signs, exponents and "Infinity" are not among the characters tried.
parseFloat(str) ==
  LET t == trim(str)
      whole == DigitRun(t, 1)
      point == Len(t) > whole /\ t[whole + 1] = "."
      frac == IF point THEN DigitRun(t, whole + 2) ELSE 0
  IN IF whole + frac = 0 THEN NaN
     ELSE Num([num |-> DecimalValue(SubSeq(t, 1, whole)) * PowerOfTen(frac)
                       + DecimalValue(SubSeq(t, whole + 2, whole + 1 + frac)),
               den |-> PowerOfTen(frac)])

\* parseInt(str, 10): leading white space is skipped and the leading digits
\* are read; NaN when there is none.
parseInt(str) ==
  LET t == trim(str)
      whole == DigitRun(t, 1)
  IN IF whole = 0 THEN NaN ELSE Num(DecimalValue(SubSeq(t, 1, whole)))

\* Math.round(num * multiplier) for a fraction that is not negative: halves
\* round up; NaN stays NaN.
RoundedProduct(num, multiplier) ==
  IF num = NaN THEN NaN
  ELSE Num((2 * Get(num).num * multiplier + Get(num).den) \div (2 * Get(num).den))

\* const multipliers = { k: 1000, m: 1000000, b: 1000000000 }, in the order
\* of Object.entries.
Multipliers ==
  << [suffix |-> "k", multiplier |-> 1000],
     [suffix |-> "m", multiplier |-> 1000000],
     [suffix |-> "b", multiplier |-> 1000000000] >>

\* parseEngagementNumber(str): the first suffix the cleaned text ends with
\* returns Math.round(parseFloat(cleaned.slice(0, -1)) * multiplier); with no
\* suffix, parseInt(cleaned, 10) || 0.
parseEngagementNumber(str) ==
  LET cleaned == toLowerCase(trim(replaceCommas(str)))
      matching == { i \in DOMAIN Multipliers : endsWith(cleaned, Multipliers[i].suffix) }
  IN IF matching # {}
     THEN LET first == CHOOSE i \in matching : \A j \in matching : i <= j
              num == parseFloat(SubSeq(cleaned, 1, Len(cleaned) - 1))
          IN RoundedProduct(num, Multipliers[first].multiplier)
     ELSE LET n == parseInt(cleaned)
          IN IF n = NaN \/ n = Num(0) THEN Num(0) ELSE n

\* The characters of the texts parsed: digits, the separators, a suffix in
\* either case, a letter that is no suffix, and white space.
ParseChars == {"0", "1", "5", ".", ",", "k", "M", "x", " "}

\* The longest text parsed.
MaxTextLen == 3

ParseTexts == UNION { [1..n -> ParseChars] : n \in 0..MaxTextLen }

\* parseEngagementNumber(str) is called and returns.
Parse ==
  /\ parsing # None /\ parsing.result = None
  /\ parsing' = [parsing EXCEPT !.result = Some(parseEngagementNumber(parsing.str))]
  /\ UNCHANGED <<articles, clock, behaviour, queueVars, streamVars, syncVars, handlerVars, adapterVars, listing, scoring, reader>>

ParseInit ==
  /\ articles = <<>>
  /\ scoring = None
  /\ reader = None
  /\ ServerConstructed(<<>>)
  /\ parsing \in { [str |-> str, result |-> None] : str \in ParseTexts }

ParseNext == Parse

ParseSpec == ParseInit /\ [][ParseNext]_vars

\* -------------------------------------------- client: refresh stream reader

\* The longest chunk a read delivers short of the whole stream: two events
\* and a part of a third.
MaxChunk == 30

\* What route.fetch did for each source of the streams read: it threw, or it
\* answered with MaxOrigins origins.
ReaderOutcomes == { [kind |-> "throw"], [kind |-> "ok", origins |-> MaxOrigins] }

\* The events start(controller) enqueues when source k settles as outs[k].
EmittedEvents(outs) ==
  LET total == Len(StreamSources)
      OfSource(k) ==
        << ProgressEvent(StreamSources[k].label, k - 1, total),
           StreamOutcomeEvent(StreamSources[k], outs[k], k - 1, total) >>
      Loop[k \in 0..total] ==
        IF k = 0 THEN <<>> ELSE Loop[k - 1] \o OfSource(k)
  IN Loop[total] \o << EngagementEvent("calculating"), EngagementEvent("complete"),
                       DoneEvent >>

EmittedStreams == { EmittedEvents(outs) : outs \in [1..Len(StreamSources) -> ReaderOutcomes] }

\* Every event a stream can carry.
WireEvents == UNION { Range(evs) : evs \in EmittedStreams }

DigitChar(n) == CHOOSE c \in DecimalDigits : DigitValue(c) = n

\* JSON.stringify(event), in a compact notation that keeps one character for
\* the type and one for each field that varies (the index stands for the
\* source's label, the constant fields are left out).
JSONstringify(ev) ==
  CASE ev.type = "progress" -> <<"{", "p", DigitChar(ev.index), "}">>
    [] ev.type = "complete" -> <<"{", "c", DigitChar(ev.index), DigitChar(ev.count), "}">>
    [] ev.type = "error" -> <<"{", "e", DigitChar(ev.index), "}">>
    [] ev.type = "engagement" ->
         <<"{", "g", IF ev.status = "calculating" THEN "0" ELSE "1", "}">>
    [] OTHER -> <<"{", "d", "}">>

\* JSON.parse(text): the event whose JSON the text is, None when it throws
\* (the text is cut short or is no JSON).
JSONparse(text) ==
  LET matching == { ev \in WireEvents : JSONstringify(ev) = text }
  IN IF matching = {} THEN None ELSE Some(CHOOSE ev \in matching : TRUE)

\* encoder.encode(`data: ${JSON.stringify(event)}\n\n`)
Frame(ev) == <<"d", "a", "t", "a", ":", " ">> \o JSONstringify(ev) \o <<"\n", "\n">>

\* The bytes the server enqueues for a sequence of events.
Wire(evs) ==
  LET Upto[k \in 0..Len(evs)] == IF k = 0 THEN <<>> ELSE Upto[k - 1] \o Frame(evs[k])
  IN Upto[Len(evs)]

RECURSIVE Split(_)
\* text.split('\n'): the pieces between the line feeds, one more than there
\* are line feeds.
Split(text) ==
  LET feeds == { i \in DOMAIN text : text[i] = "\n" }
  IN IF feeds = {} THEN <<text>>
     ELSE LET first == CHOOSE i \in feeds : \A j \in feeds : i <= j
          IN <<SubSeq(text, 1, first - 1)>> \o Split(SubSeq(text, first + 1, Len(text)))

\* line.startsWith('data: ')
IsDataLine(line) == Len(line) >= 6 /\ SubSeq(line, 1, 6) = <<"d", "a", "t", "a", ":", " ">>

\* The branches of the reader on data.type, applied to the progress state.
ApplyEvent(prev, data) ==
  CASE data.type = "progress" -> [prev EXCEPT !.currentSource = data.source]
    [] data.type = "complete" ->
         [prev EXCEPT !.currentSource = "",
                      !.completedSources =
                         Append(@, [name |-> data.source, count |-> data.count])]
    [] data.type = "error" ->
         [prev EXCEPT !.currentSource = "",
                      !.completedSources =
                         Append(@, [name |-> data.source, count |-> 0,
                                    error |-> data.error])]
    [] data.type = "engagement" -> [prev EXCEPT !.engagementStatus = data.status]
    [] OTHER -> prev

\* for (const line of lines): a data: line whose JSON parses is applied, any
\* other line is skipped.
ApplyLines(r, lines) ==
  LET After[k \in 0..Len(lines)] ==
        IF k = 0 THEN r
        ELSE LET data == IF IsDataLine(lines[k])
                         THEN JSONparse(SubSeq(lines[k], 7, Len(lines[k])))
                         ELSE None
             IN IF data = None THEN After[k - 1]
                ELSE [After[k - 1] EXCEPT !.progress = ApplyEvent(@, Get(data)),
                                          !.parsed = Append(@, Get(data))]
  IN After[Len(lines)]

\* A reader that splits each chunk by itself and keeps no remainder.
readChunkUnbuffered(r, value) ==
  LET pieces == Split(value)
  IN ApplyLines(r, SubSeq(pieces, 1, Len(pieces) - 1))

\* One turn of the read loop with the chunk `value`: the chunk is appended to
\* the buffer, the text is split at the line feeds, the last piece stays in
\* the buffer and the lines before it are handled.
readChunk(r, value) ==
  LET pieces == Split(r.buffer \o value)
  IN ApplyLines([r EXCEPT !.buffer = pieces[Len(pieces)]],
                SubSeq(pieces, 1, Len(pieces) - 1))

\* refreshAllWithProgress once fetch has answered for a stream that will
\* carry `evs`: the modal is open and nothing was read.
ReaderAtStart(evs) ==
  [pc |-> "reading", emitted |-> evs, rest |-> Wire(evs), buffer |-> <<>>,
   progress |-> [isOpen |-> TRUE, currentSource |-> "", completedSources |-> <<>>,
                 totalSources |-> 5, engagementStatus |-> "pending"],
   parsed |-> <<>>]

\* reader.read() resolves with the next n bytes of the stream.
ReadChunk(n) ==
  /\ reader # None /\ reader.pc = "reading"
  /\ n \in 1..Len(reader.rest)
  /\ reader' = [readChunk(reader, SubSeq(reader.rest, 1, n)) EXCEPT
                  !.rest = SubSeq(reader.rest, n + 1, Len(reader.rest))]
  /\ UNCHANGED <<articles, clock, behaviour, queueVars, streamVars, syncVars, handlerVars, adapterVars, listing, scoring, parsing>>

\* reader.read() resolves with done: the loop is left.
ReadDone ==
  /\ reader # None /\ reader.pc = "reading"
  /\ reader.rest = <<>>
  /\ reader' = [reader EXCEPT !.pc = "closed"]
  /\ UNCHANGED <<articles, clock, behaviour, queueVars, streamVars, syncVars, handlerVars, adapterVars, listing, scoring, parsing>>

ReaderInit ==
  /\ articles = <<>>
  /\ scoring = None
  /\ parsing = None
  /\ ServerConstructed(<<>>)
  /\ reader \in { ReaderAtStart(evs) : evs \in EmittedStreams }

\* The chunks tried: every length up to MaxChunk, and the whole rest of the
\* stream at once.
ReaderNext ==
  \/ \E n \in (1..MaxChunk) \cup {Len(reader.rest)} : ReadChunk(n)
  \/ ReadDone

ReaderSpec == ReaderInit /\ [][ReaderNext]_vars

\* ------------------------------------------------- claims: refresh orchestrator

\* The declared priority order of the sources.
DeclaredOrder == <<"feeds", "podcasts", "reddit", "hackernews", "youtube">>

\* The number of events of a type in a sequence of events.
CountType(evs, type) == Cardinality({ p \in 1..Len(evs) : evs[p].type = type })

\* Source k (0-based) of the streaming run has been invoked and has settled.
StreamSettled(k) == Len(sCalls) > k /\ k \notin sInflight

\* C1: the events of a streaming run are, in order, 5 pairs (progress with
\* status fetching, then complete or error), pair i carrying index i, total 5
\* and the label of the i-th declared source, then engagement calculating,
\* engagement complete and done; done is emitted once, last, as the stream
\* closes. Every state of a run holds a prefix of that sequence, and a closed
\* run holds all 13 events.
C1_EventSequence ==
  /\ Len(events) <= 13
  /\ \A p \in 1..Len(events) :
       LET e == events[p]
           i == (p - 1) \div 2
       IN IF p <= 10
          THEN /\ e.index = i
               /\ e.total = 5
               /\ e.source = StreamSources[i + 1].label
               /\ StreamSources[i + 1].name = DeclaredOrder[i + 1]
               /\ IF p % 2 = 1
                  THEN e.type = "progress" /\ e.status = "fetching"
                  ELSE e.type \in {"complete", "error"}
          ELSE IF p = 11 THEN e = [type |-> "engagement", status |-> "calculating"]
          ELSE IF p = 12 THEN e = [type |-> "engagement", status |-> "complete"]
          ELSE e = [type |-> "done"]
  /\ (sPc = "closed") <=> (Len(events) = 13)

\* C1 witness: a closed run in which exactly 2 of the 5 sources failed.
C1_Witness ==
  /\ sPc = "closed"
  /\ CountType(events, "error") = 2
  /\ CountType(events, "complete") = 3
  /\ events[Len(events)].type = "done"

\* C2: when the adapter of source k throws, the run goes on: the error event
\* of source k is emitted, the loop is never left before all 5 sources were
\* invoked, and a closed run holds the progress and the complete-or-error
\* event of every later source, both engagement events and done.
C2_FailureDoesNotAbort ==
  \A k \in 0..4 :
    (behaviour[StreamSources[k + 1].name].kind = "throw" /\ StreamSettled(k)) =>
      /\ Len(events) >= 2 * k + 2
      /\ events[2 * k + 2].type = "error"
      /\ events[2 * k + 2].source = StreamSources[k + 1].label
      /\ sPc \in {"sleep", "closed"} => Len(sCalls) = 5
      /\ sPc = "loop" => ENABLED (StreamInvoke \/ StreamEngagementStart)
      /\ sPc = "closed" =>
           /\ \A j \in (k + 1)..4 :
                /\ events[2 * j + 1].type = "progress"
                /\ events[2 * j + 2].type \in {"complete", "error"}
           /\ CountType(events, "engagement") = 2
           /\ CountType(events, "done") = 1

\* C2 witness: the first source threw and the run closed after invoking all.
C2_Witness ==
  /\ behaviour["feeds"].kind = "throw"
  /\ sPc = "closed"
  /\ Len(sCalls) = 5
  /\ events[2].type = "error"

\* C3: a source whose adapter failed, by throwing or by answering an error
\* outcome (success: false with an error message), gets an error event and
\* not a complete event.
C3_FailureGivesErrorEvent ==
  \A k \in 0..4 :
    (behaviour[StreamSources[k + 1].name].kind \in {"throw", "fail"} /\ StreamSettled(k)) =>
      /\ Len(events) >= 2 * k + 2
      /\ events[2 * k + 2].type = "error"

\* C4: within a run the sources are invoked one after another in the declared
\* order: at most one adapter invocation of a run is in flight, and adapter
\* i+1 is started only after the outcome of source i was emitted (streaming)
\* or stored (non-streaming).
C4_Sequential ==
  /\ Cardinality(sInflight) <= 1
  /\ Cardinality(aInflight) <= 1
  /\ \A p \in 1..Len(sCalls) : p <= 5 /\ sCalls[p].source = DeclaredOrder[p]
  /\ \A p \in 1..Len(aCalls) : p <= 5 /\ aCalls[p].source = DeclaredOrder[p]
  /\ CountType(events, "complete") + CountType(events, "error") >= Len(sCalls) - 1
  /\ Cardinality(DOMAIN results) >= Len(aCalls) - 1

\* C4 witness: both runs have reached their last source, each with that one
\* invocation in flight.
C4_Witness ==
  /\ Len(sCalls) = 5 /\ sInflight = {4}
  /\ Len(aCalls) = 5 /\ aInflight = {4}

\* The non-streaming run reports a source as failed: its entry carries an error.
SyncFailed(r) == "error" \in DOMAIN r

\* C5: the two variants give the same per-source outcomes for the same adapter
\* behaviour: the same requests in the same order with the same
\* skip-engagement choice, a source failed in one exactly when failed in the
\* other, and the same article count for a source that succeeded.
C5_SameOutcomes ==
  (sPc = "closed" /\ aPc = "responded") =>
    /\ sCalls = aCalls
    /\ \A k \in 0..4 :
         LET ev == events[2 * k + 2]
             r == results[DeclaredOrder[k + 1]]
         IN /\ (ev.type = "error") <=> SyncFailed(r)
            /\ (ev.type = "complete" /\ ~SyncFailed(r)) =>
                 ev.count = SumCounts(r.results)

\* C6: every refresh run that has started eventually emits done and closes,
\* also when a remote origin never answers.
C6_RunEventuallyDone == (sPc = "loop") ~> (sPc = "closed")

\* ------------------------------------------------------- claims: article store

\* The step is one refresh upsert, of the draft mapped from `inp`, and the
\* draft's id is already stored.
UpsertOfStored(inp) ==
  /\ ArticleId(inp.type, inp.key) \in DOMAIN articles
  /\ RefreshUpsert(inp.type, inp.key, inp.score, inp.skip, inp.views)

\* The step leaves the is_read and summary of every stored row as they were.
UserFieldsKept ==
  \A id \in DOMAIN articles :
    /\ id \in DOMAIN articles'
    /\ articles'[id].is_read = articles[id].is_read
    /\ articles'[id].summary = articles[id].summary

\* C7: a refresh upsert of an id already in the store leaves the stored
\* is_read and summary of that row (and of every other row) as they were,
\* whatever markRead, markUnread and saveSummary did before: no step that
\* changes one of them is such an upsert.
C7_UpsertKeepsUserFields ==
  [][ UserFieldsKept \/ ~(\E inp \in UpsertInputs : UpsertOfStored(inp)) ]_vars

\* C7 witness: the Reddit row, inserted at tick 0, was upserted again at a
\* later tick (its inline engagement is younger than the row) and is still
\* read and summarized.
C7_Witness ==
  LET id == ArticleId("reddit", <<1, 1>>) IN
    /\ id \in DOMAIN articles
    /\ articles[id].fetched_at = 0
    /\ articles[id].engagement_type = Some("upvotes")
    /\ articles[id].engagement_fetched_at = Some(MaxTicks)
    /\ articles[id].is_read = 1
    /\ articles[id].summary = Some("summary A")

\* C8: a refresh upsert that touches a stored row updates it: afterwards the
\* stored fetched_at is the fetch time the upsert carries and the stored
\* engagement is the engagement it carries.
C8_UpsertUpdatesFetchedAt ==
  [][ \A inp \in UpsertInputs :
        UpsertOfStored(inp) =>
          LET d == AdapterDraft(inp.type, inp.key, inp.score, clock, inp.skip, inp.views)
              row == articles'[d.id]
          IN /\ row.fetched_at = d.fetched_at
             /\ row.engagement_score = d.engagement_score
             /\ row.engagement_raw = d.engagement_raw
             /\ row.engagement_type = d.engagement_type
             /\ row.engagement_fetched_at = d.engagement_fetched_at ]_vars

\* The engagement columns of a row.
EngagementOf(row) ==
  <<row.engagement_score, row.engagement_raw, row.engagement_type,
    row.engagement_fetched_at>>

\* C9: upsert and updateEngagement write disjoint columns: for a stored id,
\* updateEngagement then upsert gives the row that upsert then updateEngagement
\* gives, and a refresh upsert that carries no engagement (the YouTube refresh
\* with skip_engagement) leaves the stored engagement as it was.
C9_DisjointWriters ==
  [][ \A inp \in UpsertInputs :
        LET d == AdapterDraft(inp.type, inp.key, inp.score, clock, inp.skip, inp.views)
        IN /\ d.id \in DOMAIN articles =>
                insertArticle(updateEngagement(articles, d.id, 100, 100, "views", clock), d)
                = updateEngagement(insertArticle(articles, d), d.id, 100, 100, "views", clock)
           /\ (UpsertOfStored(inp) /\ d.engagement_score = None) =>
                EngagementOf(articles'[d.id]) = EngagementOf(articles[d.id]) ]_vars

\* C10: a summary is set at most once: once an id has a stored summary, no
\* step changes it.
C10_SummarySetOnce ==
  [][ \A id \in DOMAIN articles :
        IsSome(articles[id].summary) =>
          /\ id \in DOMAIN articles'
          /\ articles'[id].summary = articles[id].summary ]_vars

\* The sources whose refresh has settled, in the streaming and in the
\* non-streaming run.
SettledSources ==
  { StreamSources[i].name : i \in 1..sI } \cup { SyncSources[i].name : i \in 1..aI }

\* The ids of the drafts the settled refreshes handed to insertArticle.
UpsertedIds ==
  UNION { { d.id : d \in AdapterDrafts(n, behaviour[n], clock, n = "youtube") } :
            n \in { m \in SettledSources : behaviour[m].kind = "ok" } }

\* C11: re-ingesting never duplicates: after any sequence of refresh runs the
\* store holds one row per id ever upserted, and as many rows as there are
\* distinct upserted ids.
C11_NoDuplicates ==
  /\ DOMAIN articles = UpsertedIds
  /\ Cardinality(DOMAIN articles) = Cardinality(UpsertedIds)

\* C11 witness: both runs are over, each has ingested the same two Reddit
\* origins, and the store holds their three items once.
C11_Witness ==
  /\ sPc = "closed" /\ aPc = "responded"
  /\ behaviour["reddit"] = [kind |-> "ok", origins |-> MaxOrigins]
  /\ Cardinality({ id \in DOMAIN articles : articles[id].source_type = "reddit" })
       = Cardinality({ d.id : d \in AdapterDrafts("reddit", behaviour["reddit"], clock, FALSE) })
  /\ Cardinality(DOMAIN articles) >= 3

\* C12: insertArticle is idempotent: in every store state, upserting a draft
\* twice in a row leaves the store as upserting it once does.
C12_UpsertIdempotent ==
  \A inp \in UpsertInputs :
    LET d == AdapterDraft(inp.type, inp.key, inp.score, clock, inp.skip, inp.views)
    IN insertArticle(insertArticle(articles, d), d) = insertArticle(articles, d)

\* C12 witness: the Reddit row, inserted at tick 0 and since marked read, is
\* as the upsert of a later draft with engagement leaves it, and upserting
\* that draft again changes nothing.
C12_Witness ==
  LET d == AdapterDraft("reddit", <<1, 1>>, 100, clock, FALSE, None) IN
    /\ clock > 0
    /\ d.id \in DOMAIN articles
    /\ articles[d.id].fetched_at = 0
    /\ articles[d.id].is_read = 1
    /\ articles[d.id].engagement_fetched_at = Some(clock)
    /\ insertArticle(articles, d) = articles

\* --------------------------------------------- claims: auto-summarize queue

\* C13: a change of the article list never clears the visible-id set: an id
\* leaves the set only in a step that unregisters its element, or in an
\* observer callback that reports it as not intersecting.
C13_VisibleNeverCleared ==
  [][ \/ (visibleIds \ visibleIds') \subseteq (elementRefs \ elementRefs')
      \/ \E targets \in SUBSET elementRefs : \E intersecting \in SUBSET targets :
           /\ ObserverCallback(targets, intersecting)
           /\ (visibleIds \ visibleIds') \subseteq (targets \ intersecting) ]_vars

\* C13 witness: a drain for the two visible articles was started, then the
\* list changed (the flag is reset, the timer is armed, nothing was requested
\* since) and the two ids are still in the visible set.
C13_Witness ==
  /\ changes = MaxListChanges
  /\ drains = << [cands |-> <<1, 2>>, pos |-> 1, failed |-> {}] >>
  /\ ~processingRef /\ timer /\ requestedSince = {}
  /\ summarized = {}
  /\ visibleIds = {1, 2}

\* C14: at most one drain of the queue runs at any time.
C14_OneDrain == Len(drains) <= 1

\* Two articles with content.
Pairs == { p \in Ids \X Ids : p[1] < p[2] /\ HasContent(p[1]) /\ HasContent(p[2]) }

\* The list has just changed, and both articles of the pair are listed,
\* visible and without summary.
AfterListChange(p) ==
  /\ changes > 0 /\ requestedSince = {}
  /\ \A id \in {p[1], p[2]} :
       id \in Range(list) /\ id \in visibleIds /\ id \notin summarized

\* Each article of the pair was requested by the queue since the last list
\* change, or has its summary, or is no more reported visible.
BothRequested(p) ==
  \A id \in {p[1], p[2]} :
    id \in requestedSince \/ id \in summarized \/ id \notin visibleIds

\* C15: two visible articles with content and no summary are both requested
\* after a list change that leaves them visible, provided the timer fires and
\* every summarize call returns.
C15_BothEventuallyRequested ==
  \A p \in Pairs : AfterListChange(p) ~> BothRequested(p)

\* C15 witness: after the last list change, with both articles visible all
\* along, the queue is requesting the second one, the first having failed.
C15_Witness ==
  /\ changes = MaxListChanges
  /\ visibleIds = {1, 2} /\ summarized = {}
  /\ requestedSince = {1, 2}
  /\ drains = << [cands |-> <<1, 2>>, pos |-> 2, failed |-> {1}] >>

\* C16: the queue never has two summarize requests for the same article in
\* flight at the same time.
C16_NoDuplicateRequest ==
  \A j, k \in DOMAIN drains :
    j # k => drains[j].cands[drains[j].pos] # drains[k].cands[drains[k].pos]

\* C17: a failed summarize request does not abort its drain: the drain goes
\* on to request the next candidate, and after its last candidate it ends
\* with the processing flag cleared.
C17_FailureDoesNotAbortDrain ==
  [][ \A k \in DOMAIN drains :
        SummarizeReturn(k, FALSE) =>
          LET d == drains[k] IN
            IF d.pos < Len(d.cands)
            THEN /\ k \in DOMAIN drains'
                 /\ drains'[k].cands = d.cands
                 /\ drains'[k].pos = d.pos + 1
                 /\ d.cands[d.pos + 1] \in requestedSince'
            ELSE /\ ~processingRef'
                 /\ Len(drains') = Len(drains) - 1 ]_vars

\* C17 witness: the request for the first candidate of a drain failed and the
\* drain is awaiting the request for its second one.
C17_Witness ==
  \E k \in DOMAIN drains :
    /\ drains[k].failed = {1}
    /\ drains[k].pos = 2
    /\ Len(drains[k].cands) = 2

\* The place of an article in a list.
IndexOf(l, id) == CHOOSE i \in DOMAIN l : l[i] = id

\* C18: the candidates of a drain are exactly the articles of the current
\* list that are in the visible-id set, have content and have no summary, in
\* list order; with an empty visible set no drain starts.
C18_Candidates ==
  [][ Len(drains') > Len(drains) =>
        LET c == drains'[Len(drains')].cands IN
          /\ Range(c) = { id \in Range(list') :
                            id \in visibleIds' /\ HasContent(id) /\ id \notin summarized' }
          /\ \A i, j \in DOMAIN c : i < j => IndexOf(list', c[i]) < IndexOf(list', c[j])
          /\ visibleIds' # {} ]_vars

\* C18 witness: of a list of three visible articles, the drain took the two
\* with content, in list order.
C18_Witness ==
  /\ list = <<2, 3, 1>>
  /\ visibleIds = {1, 2, 3}
  /\ summarized = {}
  /\ drains = << [cands |-> <<2, 1>>, pos |-> 1, failed |-> {}] >>

\* ------------------------------------------------------ claims: engagement

EngagementAgeMs(id) == (clock - Get(articles[id].engagement_fetched_at)) * TickMs

FetchedWithinHour(id) ==
  /\ id \in DOMAIN articles
  /\ IsSome(articles[id].engagement_fetched_at)
  /\ EngagementAgeMs(id) < OneHourMs

\* C20: a fetch-engagement request for an article whose engagement was
\* fetched less than one hour ago answers the stored engagement with
\* cached: true, starts no remote fetch and leaves the store as it is; a
\* remote fetch starts only for an article whose engagement fetch time is
\* absent or at least one hour old.
C20_CachedWithinHour ==
  [][ /\ (engReq.pc = "idle" /\ engReq'.pc = "awaiting")
         => ~FetchedWithinHour(engReq'.id)
      /\ \A id \in ArticleIds :
           (engReq' # engReq /\ FetchedWithinHour(id) /\ FetchEngagementStart(id))
           => /\ engReq'.pc = "idle"
              /\ articles' = articles
              /\ engReq'.answer =
                   Some([status |-> 200, cached |-> TRUE,
                         engagement_score |-> articles[id].engagement_score,
                         engagement_raw |-> articles[id].engagement_raw,
                         engagement_type |-> articles[id].engagement_type]) ]_vars

\* C20 witness: a request was answered from the store, half an hour after the
\* engagement was fetched.
C20_Witness ==
  /\ engReq.pc = "idle"
  /\ IsSome(engReq.answer)
  /\ Get(engReq.answer).status = 200
  /\ Get(engReq.answer).cached
  /\ \E id \in DOMAIN articles :
       /\ FetchedWithinHour(id)
       /\ EngagementAgeMs(id) > 0
       /\ Get(engReq.answer).engagement_score = articles[id].engagement_score

\* --------------------------------------------------- claims: summarize route

OtherThanRead(row) == [f \in DOMAIN row \ {"is_read"} |-> row[f]]

\* db2 differs from db at most in the is_read of row id, which is `flag`.
OnlyReadSet(db, db2, id, flag) ==
  /\ DOMAIN db2 = DOMAIN db
  /\ db2[id].is_read = flag
  /\ OtherThanRead(db2[id]) = OtherThanRead(db[id])
  /\ \A o \in DOMAIN db \ {id} : db2[o] = db[o]

\* C22: for every stored article, marking it read once, twice or three times
\* gives the same store, with is_read 1 and nothing else changed; marking it
\* unread likewise gives is_read 0.
C22_MarksIdempotent ==
  \A id \in DOMAIN articles :
    LET read1 == markAsRead(articles, id)
        unread1 == markAsUnread(articles, id)
    IN /\ OnlyReadSet(articles, read1, id, 1)
       /\ markAsRead(read1, id) = read1
       /\ markAsRead(markAsRead(read1, id), id) = read1
       /\ OnlyReadSet(articles, unread1, id, 0)
       /\ markAsUnread(unread1, id) = unread1
       /\ markAsUnread(markAsUnread(unread1, id), id) = unread1

\* C22 witness: a read article that has a summary and engagement, beside an
\* unread one.
C22_Witness ==
  \E id, o \in DOMAIN articles :
    /\ articles[id].is_read = 1
    /\ IsSome(articles[id].summary)
    /\ IsSome(articles[id].engagement_score)
    /\ articles[o].is_read = 0

\* The ids a request may name that are not in the store.
UnknownIds == ArticleIds \ DOMAIN articles

FetchFailures == {"status", "reject", "malformed"}

\* The ids origin `value` contributed to the current run.
UpsertedFrom(value) == { id \in run.upserted : id[2][1] = value }

\* C24: in a looping adapter's refresh every origin read at the start is
\* fetched in turn, whatever happened to the origins before it, and the
\* handler ends by answering; an origin whose fetch or parse failed
\* contributes no article, and an origin that answered has its article
\* upserted.
C24_FailingOriginDoesNotBlock ==
  run.pc \in {"looping", "done"} =>
    /\ Len(run.fetched) = run.i - 1
    /\ Len(run.results) = run.i - 1
    /\ \A k \in DOMAIN run.fetched : run.fetched[k].value = run.origins[k].value
    /\ run.pc = "done" => Len(run.fetched) = Len(run.origins)
    /\ run.pc = "looping" => run.i <= Len(run.origins)
    /\ \A k \in DOMAIN run.fetched :
         /\ run.fetched[k].outcome \in FetchFailures
            => UpsertedFrom(run.fetched[k].value) = {}
         /\ run.fetched[k].outcome = "items"
            => /\ UpsertedFrom(run.fetched[k].value) # {}
               /\ UpsertedFrom(run.fetched[k].value) \subseteq DOMAIN articles

\* C24 witness: the first origin of a refresh failed, the second was fetched
\* all the same, and the store holds the second's article and none of the
\* first's.
C24_Witness ==
  /\ run.pc = "done"
  /\ Len(run.fetched) = 2
  /\ run.fetched[1].outcome \in FetchFailures
  /\ run.fetched[2].outcome = "items"
  /\ ArticleId(run.kind, <<run.fetched[2].value, 1>>) \in DOMAIN articles
  /\ ArticleId(run.kind, <<run.fetched[1].value, 1>>) \notin DOMAIN articles

\* C25: every origin whose fetch or parse failed has a result entry with
\* count 0 and an error message.
C25_FailuresReported ==
  run.pc \in {"looping", "done"} =>
    \A k \in DOMAIN run.fetched :
      run.fetched[k].outcome \in FetchFailures
      => /\ run.results[k].count = 0
         /\ "error" \in DOMAIN run.results[k]

\* The values of the rows of `kind` whose enabled flag is set.
EnabledValues(kind) ==
  { sources[i].value : i \in { j \in DOMAIN sources :
                                 sources[j].type = kind /\ sources[j].enabled = 1 } }

\* C27: the origins a refresh sets out to fetch are exactly the sources of
\* its kind that are enabled in the table when the refresh starts.
C27_OnlyEnabledFetched ==
  [][ (run.pc \in {"idle", "done"} /\ run'.pc \in {"looping", "done"} /\ run' # run)
      => { run'.origins[k].value : k \in DOMAIN run'.origins } = EnabledValues(run'.kind) ]_vars

\* Two characters that differ at most in case.
SameLetter(c, d) == c = d \/ {c, d} \in { {"a", "A"}, {"b", "B"} }

\* The title has some configured keyword as a substring, case aside.
ContainsKeyword(title) ==
  \E k \in DOMAIN keywords :
    \E off \in 0..(Len(title) - Len(keywords[k])) :
      \A i \in 1..Len(keywords[k]) : SameLetter(title[off + i], keywords[k][i])

\* C26: every stored Hacker News article has a title that contains a
\* configured keyword, case aside; a refresh upserts an item only if it is a
\* story with such a title; with no keyword configured the store stays empty.
C26_KeywordFilter ==
  /\ \A id \in DOMAIN articles :
       articles[id].title # <<>> /\ ContainsKeyword(articles[id].title)
  /\ keywords = <<>> => articles = <<>>
  /\ (run.pc = "answered" /\ run.success) =>
       \A j \in DOMAIN run.items :
         ArticleId("hackernews", <<1, j>>) \in run.upserted
         => /\ run.items[j] # None
            /\ Get(run.items[j]).type = "story"
            /\ Get(run.items[j]).title # <<>>
            /\ ContainsKeyword(Get(run.items[j]).title)

\* C26 witness: one refresh served a story whose title holds the keyword in
\* another case and a story whose title holds no keyword; the first was
\* stored, the second was not.
C26_Witness ==
  /\ run.pc = "answered" /\ run.success
  /\ keywords = << <<"a", "b">> >>
  /\ run.items[1] = Some([type |-> "story", title |-> <<"x", "a", "B">>])
  /\ run.items[2] = Some([type |-> "story", title |-> <<"b", "A">>])
  /\ run.upserted = { ArticleId("hackernews", <<1, 1>>) }
  /\ DOMAIN articles = { ArticleId("hackernews", <<1, 1>>) }

\* ------------------------------------------------- claims: article listing

\* C28: under sort top, of every two returned articles the earlier one has an
\* effective engagement score (absent: 0) at least as high as the later one,
\* whatever their publish dates, and with equal effective scores the later
\* one is not published after the earlier one.
C28_TopOrder ==
  (IsSome(listing) /\ Get(listing).query.sort = "top") =>
    LET rows == Get(listing).rows IN
      \A i, j \in DOMAIN rows :
        i < j =>
          /\ EffectiveScore(rows[i]) >= EffectiveScore(rows[j])
          /\ EffectiveScore(rows[i]) = EffectiveScore(rows[j])
               => ~SqlGreater(rows[j].published_at, rows[i].published_at)

\* Three rows came back under sort top: the oldest one first because it alone
\* scores 100, then a row without a score and a row scoring 0, by date.
C28_Witness ==
  /\ IsSome(listing) /\ Get(listing).query.sort = "top"
  /\ LET rows == Get(listing).rows IN
       /\ Len(rows) = 3
       /\ rows[1].engagement_score = Some(100) /\ rows[1].published_at = Some(-400)
       /\ rows[2].engagement_score = None /\ rows[2].published_at = Some(9)
       /\ rows[3].engagement_score = Some(0) /\ rows[3].published_at = Some(3)

\* The length in days of the trailing window of a period.
WindowDays(period) ==
  CASE period = "day" -> 1 [] period = "week" -> 7
    [] period = "month" -> 30 [] period = "year" -> 365

\* The row was published within the period that ends at the instant `now`.
PublishedWithin(row, period, now) ==
  /\ IsSome(row.published_at)
  /\ now - WindowDays(period) <= Get(row.published_at)
  /\ Get(row.published_at) <= now

\* The stored rows the query's source filter lets through.
SourceMatches(db, q) ==
  { r \in SqlRows(db) : IsSome(q.source) => r.source_type = Get(q.source) }

\* C29: a query with sort top and period day, week, month or year returns
\* only articles published within the trailing window that ends at the time
\* of the query, and (the page being large enough) every stored article of
\* the window that matches the source filter; with period all it leaves out
\* no matching article.
C29_PeriodWindow ==
  [][(listing' # listing /\ Get(listing').query.sort = "top") =>
       LET q == Get(listing').query
           now == Get(listing').now
           rows == Get(listing').rows
           whole == q.limit >= Cardinality(DOMAIN articles) /\ q.offset = 0
       IN IF q.period = "all"
          THEN whole => SourceMatches(articles, q) \subseteq Range(rows)
          ELSE /\ \A r \in Range(rows) : PublishedWithin(r, q.period, now)
               /\ whole => \A r \in SourceMatches(articles, q) :
                             PublishedWithin(r, q.period, now) => r \in Range(rows)
    ]_vars

\* ------------------------------------------- claims: engagement range ends

\* The reference scale of a source type: 10000 for Reddit, 500 for Hacker
\* News, 1000000 for YouTube, 1000 for every other type.
ReferenceScale(sourceType) ==
  IF sourceType = "reddit" THEN 10000
  ELSE IF sourceType = "hackernews" THEN 500
  ELSE IF sourceType = "youtube" THEN 1000000
  ELSE 1000

\* C30: for every source type normalizeEngagement returns 0 for a raw value
\* of 0 or less and 100 for a raw value of the type's reference scale or more.
C30_RangeEnds ==
  (scoring # None /\ IsSome(scoring.score) /\ scoring.raw # NaN) =>
    /\ Get(scoring.raw) <= 0 => Get(scoring.score) = Num(0)
    /\ Get(scoring.raw) >= ReferenceScale(scoring.sourceType)
         => Get(scoring.score) = Num(100)

\* A Hacker News count of exactly 500 was scored 100.
C30_Witness ==
  /\ scoring # None
  /\ scoring.sourceType = "hackernews" /\ scoring.raw = Num(500)
  /\ scoring.score = Some(Num(100))

\* C31: normalizeEngagement is deterministic and monotonic non-decreasing in
\* raw for a fixed source type: of two calls the one with the greater count
\* does not score lower, equal counts score equal, and a count of at least
\* 1 scores more than 0.
C31_Monotonic ==
  (scoring # None /\ "before" \in DOMAIN scoring) =>
    LET a == scoring.before.raw
        b == scoring.raw
        scoreA == scoring.before.score
        scoreB == Get(scoring.score)
    IN /\ a = b => scoreA = scoreB
       /\ (a # NaN /\ b # NaN) =>
            /\ Get(a) <= Get(b) => Get(scoreA) <= Get(scoreB)
            /\ Get(b) <= Get(a) => Get(scoreB) <= Get(scoreA)
            /\ Get(b) >= 1 => Get(scoreB) > 0

\* A YouTube count of 1 was scored above 0, and the count of a million
\* after it was scored higher.
C31_Witness ==
  /\ scoring # None /\ "before" \in DOMAIN scoring
  /\ scoring.sourceType = "youtube"
  /\ scoring.before.raw = Num(1) /\ Get(scoring.before.score) > 0
  /\ scoring.raw = Num(1000000)
  /\ Get(Get(scoring.score)) > Get(scoring.before.score)

\* ------------------------------------------------ claims: count parsing

\* C32: parseEngagementNumber returns a number for every text, and 0 for
\* every text without a digit: the empty text, text that is not numeric, and
\* text that ends in a suffix letter with no mantissa before it.
C32_UnparseableIsZero ==
  (parsing # None /\ IsSome(parsing.result)) =>
    /\ Get(parsing.result) # NaN
    /\ (\A i \in DOMAIN parsing.str : parsing.str[i] \notin DecimalDigits)
         => Get(parsing.result) = Num(0)

\* --------------------------------------------- claims: drains of the queue

\* C33: a drain requests a candidate only if, at that iteration, the article
\* is still in the visible-id set and still has no summary.
C33_RecheckedEachIteration ==
  [][ drains' # drains =>
        \A k \in DOMAIN drains :
          (Len(drains') = Len(drains) /\ drains'[k].pos = drains[k].pos + 1) =>
            LET id == drains[k].cands[drains[k].pos + 1]
            IN id \in visibleIds' /\ id \notin summarized' ]_vars

\* The payloads of three items whose second one has no link.
Unlinked == {"unlinked", "unhashable"}

\* C34: of an origin's payload whose second item has no link, the first and
\* the third item are upserted and the origin's entry counts them, without
\* an error.
C34_BadItemDroppedAlone ==
  run.pc \in {"looping", "done"} =>
    \A k \in DOMAIN run.fetched :
      run.fetched[k].outcome \in Unlinked =>
        /\ \A j \in {1, 3} :
             ArticleId(run.kind, <<run.fetched[k].value, j>>) \in DOMAIN articles
        /\ run.results[k].count = 2
        /\ "error" \notin DOMAIN run.results[k]

\* C35: while a drain runs, the published progress has 0 <= current <= total,
\* its total is the number of candidates the drain started with and its
\* current is the number of the drain's requests that have completed.
C35_ProgressOfDrain ==
  \A k \in DOMAIN drains :
    /\ 0 <= state.progress.current
    /\ state.progress.current <= state.progress.total
    /\ state.progress.total = Len(drains[k].cands)
    /\ state.progress.current = drains[k].pos - 1

\* C36: while a drain awaits a summarize request the processing flag is set,
\* and while no drain runs isAutoSummarizing is false and currentArticleId
\* is null.
C36_FlagsAgreeWithQueue ==
  /\ drains # <<>> => processingRef
  /\ drains = <<>> => (~state.isAutoSummarizing /\ state.currentArticleId = None)

\* C37: once the hook is torn down the abort flag stays set, no drain
\* starts, and no drain requests another candidate: a drain only ends.
C37_TornDownStaysAborted ==
  [][ abortRef =>
        /\ abortRef'
        /\ requestedSince' \subseteq requestedSince
        /\ Len(drains') <= Len(drains)
        /\ \A k \in DOMAIN drains' : \E j \in DOMAIN drains : drains'[k] = drains[j]
    ]_vars

\* The hook was torn down while a drain of two candidates awaited its first
\* request; the request has settled and the drain ended without requesting
\* the second candidate, which is still visible and without summary.
C37_Witness ==
  /\ abortRef /\ drains = <<>> /\ ~processingRef
  /\ state.progress = [current |-> 1, total |-> 2]
  /\ requestedSince = {1}
  /\ 2 \in visibleIds /\ 2 \notin summarized /\ 2 \in Range(list)

\* ------------------------------------------------ claims: element registry

CompletedOf(evs) ==
  LET marks == SelectSeq(evs, LAMBDA ev : ev.type \in {"complete", "error"})
  IN [k \in DOMAIN marks |->
        IF marks[k].type = "complete"
        THEN [name |-> marks[k].source, count |-> marks[k].count]
        ELSE [name |-> marks[k].source, count |-> 0, error |-> marks[k].error]]

\* C39: whatever the chunks, the events the reader has applied are the
\* events the server emitted up to there, each once and in order, with
\* completedSources holding their complete and error entries; when the
\* stream is closed every emitted event was applied and completedSources has
\* one entry per source, in the order of the sources.
C39_StreamAppliedFaithfully ==
  reader # None =>
    /\ Len(reader.parsed) <= Len(reader.emitted)
    /\ reader.parsed = SubSeq(reader.emitted, 1, Len(reader.parsed))
    /\ reader.progress.completedSources = CompletedOf(reader.parsed)
    /\ reader.pc = "closed" =>
         /\ reader.parsed = reader.emitted
         /\ Len(reader.progress.completedSources) = Len(StreamSources)
         /\ \A k \in DOMAIN StreamSources :
              reader.progress.completedSources[k].name = StreamSources[k].label

\* Two sources are entered as completed and the last chunk ended inside the
\* JSON of the data line of the third one's error event.
C39_Witness ==
  /\ reader # None /\ reader.pc = "reading"
  /\ Len(reader.progress.completedSources) = 2
  /\ Len(reader.buffer) = 8 /\ reader.buffer[8] = "e"
  /\ reader.rest # <<>>

====
